---- MODULE Spec2Model ----
(***************************************************************************)
(* Dual-session authentication front end (airtable-integration-frontend). *)
(*                                                                         *)
(* Part 1: the route guards (authGuard, scrapingGuard, combinedGuard) and  *)
(*         the route table: the check of the latest navigation and the     *)
(*         checks it superseded that are still subscribed.                 *)
(* Part 2: AuthenticationComponent, the scraping-credential / MFA track.   *)
(*                                                                         *)
(* The Remote API is the environment: every response and every failure is  *)
(* an input chosen with \E when the callback runs.                         *)
(***************************************************************************)
EXTENDS Naturals, Sequences, FiniteSets, TLC

\* ------------------------------------------------------------------ values

\* JavaScript undefined / null / a missing query parameter
Absent == "absent"

\* expiresAt values the Remote API may send (opaque to the guards)
ExpiresAtValues == {Absent, "2030-01-01"}

\* GET /auth/status answers
AuthDescs ==
  [authenticated : BOOLEAN, expired : BOOLEAN, hasToken : BOOLEAN,
   expiresAt : ExpiresAtValues]

\* GET /scraping/cookie-status answers
CookieDescs == [hasCookies : BOOLEAN, valid : BOOLEAN]

\* the paths a navigation may ask for
Paths ==
  {"", "/authentication", "/data-fetch", "/scraping", "/data-view", "/nowhere"}

\* the route table: redirectTo entries ('' and '**')
redirectTo(path) ==
  IF path \in {"/authentication", "/data-fetch", "/scraping", "/data-view"}
  THEN path
  ELSE "/authentication"

\* (variant) the authentication entry point put behind authGuard as well
canActivate_guardsEntry(url) ==
  IF url \in {"/authentication", "/data-fetch", "/scraping", "/data-view"}
  THEN "authGuard"
  ELSE "none"

\* the route table: canActivate of each component route
canActivate(url) ==
  IF url \in {"/data-fetch", "/scraping", "/data-view"} THEN "authGuard"
  ELSE "none"

\* routes the exported guards are written for
ProtectedUrls == {"/data-fetch", "/scraping", "/data-view"}

\* router.navigate(['/authentication'], {queryParams}) as the URL carries it:
\* the Router writes the boolean true as the string 'true'
NavigateCall(returnUrl, requiresScraping) ==
  [target |-> "/authentication", returnUrl |-> returnUrl,
   requiresScraping |-> requiresScraping]

\* no answer received yet
NoResponse == [received |-> FALSE]

\* ---------------------------------------------- AuthenticationComponent values

\* at most this many unanswered POST requests of one kind at a time
MaxInflight == 1

\* at most this many earlier guard checks are unanswered at a time
MaxSuperseded == 1

\* at most this many unanswered status requests of one kind at a time
MaxStatus == 2

\* at most this many setTimeout callbacks are scheduled in one visit
MaxTimers == 2

\* the credential form is exercised with at most this many unanswered status
\* requests of one kind and this many scheduled redirects
MfaMaxStatus == 1

MfaMaxTimers == 1

\* interval(30000): seconds between two poll ticks
PollInterval == 30

\* what the user can have typed into the credential form
Creds == [email : {"", "user@example.com"}, password : {"", "secret"},
          mfaCode : {"", "123456"}]

EmptyCreds == [email |-> "", password |-> "", mfaCode |-> ""]

\* POST /scraping/authenticate: bodies of a 2xx answer
AuthResponses == [mfaRequired : BOOLEAN, message : {Absent, "server text"}]

\* POST /scraping/authenticate: err.error of a failure (all Absent when the
\* failure carries no payload, as a transport failure does)
AuthErrors == [mfaRequired : BOOLEAN, message : {Absent, "server text"},
               error : {Absent, "error text"}]

\* query parameters the authentication route can be opened with
QueryParams ==
  {[returnUrl |-> Absent, requiresScraping |-> Absent],
   [returnUrl |-> "/scraping", requiresScraping |-> "true"],
   [returnUrl |-> "/authentication", requiresScraping |-> "true"]}

NoQuery == [returnUrl |-> Absent, requiresScraping |-> Absent]

\* window.location.search as handleOAuthCallback reads it
SearchValues == [success : {Absent, "true", "1"},
                 error : {Absent, "access_denied"},
                 description : {Absent, "denied by user"}]

NoCallback == [success |-> Absent, error |-> Absent, description |-> Absent]

\* a || b
OrElse(a, b) == IF a # Absent /\ a # "" THEN a ELSE b

\* snackBar.open(message, 'Close', {panelClass: snackbar-type})
Message(message, type) == [message |-> message, type |-> type]

NoMessage == Message(<<>>, Absent)

\* field initialisers of AuthenticationComponent
DefaultAuthStatus ==
  [authenticated |-> FALSE, expired |-> FALSE, hasToken |-> FALSE]

DefaultCookieStatus ==
  [hasCookies |-> FALSE, valid |-> FALSE, requiresAuth |-> TRUE]

\* ------------------------------------------------------------------ state

VARIABLES
  gGuard,      \* guard running the current check: none | authGuard | ...
  gUrl,        \* state.url of the current check
  gPc,         \* idle | authPending | cookiePending | returned
  gResult,     \* none | Allow | Deny : what the guard's observable emitted
  gAuth,       \* OAuth descriptor the check received, or NoResponse
  gCookie,     \* scraping descriptor the check received, or NoResponse
  gInner,      \* combinedGuard's nested getCookieStatus(): none|pending|done|failed
  gReqs,       \* Remote API requests issued by the current check
  gFailed,     \* a status request of the current check ended in a failure
  gOld,        \* earlier checks with an unanswered request, oldest first
  redirects,   \* router.navigate calls made by the current check, in order
  routerUrl,   \* the route the router currently shows
  routerQuery, \* the query parameters of the address the router shows
  \* AuthenticationComponent
  alive,            \* constructed | active | destroyed
  authStatus,       \* this.authStatus
  cookieStatus,     \* this.cookieStatus
  scrapingLoading,  \* this.scrapingLoading
  mfaRequired,      \* this.mfaRequired
  scrapingCreds,    \* this.scrapingCreds
  returnUrl,        \* this.returnUrl
  requiresScraping, \* this.requiresScraping
  polling,          \* the interval(30000) subscription is live
  statusReqs,       \* unanswered getAuthStatus / getCookieStatus of loadStatus
  authReqs,         \* bodies of the unanswered POST /scraping/authenticate
  timers,           \* pending setTimeout(..., 1500) redirects
  resumes,          \* router.navigate([returnUrl]) calls made by the timers
  snack,            \* the message the snack bar shows
  search,           \* window.location.search
  last,             \* the handler that ran last, with the answer it was given
  clock,            \* seconds since the interval(30000) of the page last ticked
  \* ScrapingComponent
  scrAlive,         \* constructed | active | destroyed
  scrCookieStatus,  \* this.cookieStatus
  scrRevisionStats, \* this.revisionStats: zero | loaded
  scrLoading,       \* this.loading
  scrFetching,      \* this.fetchingRevisions
  scrPolling,       \* the interval(30000) subscription is live
  scrReqs,          \* unanswered requests subscribed before destroy$ fired
  scrLate,          \* unanswered requests subscribed after destroy$ completed
  scrTimers,        \* pending setTimeout(() => this.loadStatus(), 2000)
  gridApi,          \* this.gridApi is set (this.gridColumnApi never is)
  scrClock,         \* seconds since the interval(30000) of the screen last ticked
  \* AppComponent
  appAlive,         \* constructed | active | destroyed
  appAuthStatus,    \* this.authStatus
  appReqs,          \* unanswered getAuthStatus of checkAuthStatus
  appNavs,          \* router.navigate calls made by AppComponent, in order
  pathname,         \* window.location.pathname
  appLoading,       \* this.loading
  appLogoutReqs,    \* unanswered logout requests of AppComponent
  \* AuthenticationComponent, the buttons
  opReqs,           \* unanswered requests of the buttons of the page
  oauthLoading,     \* this.oauthLoading
  href,             \* what initiateOAuth assigned to window.location.href
  \* CookieService and RevisionHistoryComponent
  cookies,          \* cookiesSubject.value
  stored,           \* localStorage item 'airtable_cookies'
  revAlive,         \* constructed | active
  isAuthenticated,  \* this.isAuthenticated
  isLoading,        \* this.isLoading
  showMfaInput,     \* this.showMfaInput
  authForm,         \* this.authForm.value
  revReqs,          \* unanswered requests of RevisionHistoryComponent
  revSnack          \* the message its snack bar shows

guardVars ==
  <<gGuard, gUrl, gPc, gResult, gAuth, gCookie, gInner, gReqs, gFailed, gOld,
    redirects, routerUrl, routerQuery>>

pageVars ==
  <<alive, authStatus, cookieStatus, scrapingLoading, mfaRequired,
    scrapingCreds, returnUrl, requiresScraping, polling, statusReqs, authReqs,
    timers, resumes, snack, search, last>>

scrVars ==
  <<scrAlive, scrCookieStatus, scrRevisionStats, scrLoading, scrFetching,
    scrPolling, scrReqs, scrLate, scrTimers, gridApi>>

appVars ==
  <<appAlive, appAuthStatus, appReqs, appNavs, pathname, appLoading,
    appLogoutReqs>>

revVars ==
  <<cookies, stored, revAlive, isAuthenticated, isLoading, showMfaInput,
    authForm, revReqs, revSnack>>

vars ==
  <<guardVars, pageVars, clock, scrVars, scrClock, appVars, opReqs, oauthLoading, href, revVars>>

\* the fields of AuthenticationComponent
pageFields ==
  <<alive, authStatus, cookieStatus, scrapingLoading, mfaRequired,
    scrapingCreds, returnUrl, requiresScraping, polling, statusReqs, authReqs,
    timers, resumes>>

\* what a handler of the guards leaves alone
notGuard == <<pageVars, clock, scrVars, scrClock, appVars, opReqs, oauthLoading, href, revVars>>

\* what a handler of AuthenticationComponent leaves alone
notPage == <<guardVars, clock, scrVars, scrClock, appVars, opReqs, oauthLoading, href, revVars>>

\* what a handler of AuthenticationComponent that starts, restarts or ends the
\* interval leaves alone
notPagePoller == <<guardVars, scrVars, scrClock, appVars, revVars>>

\* what a handler of ScrapingComponent other than onGridReady leaves alone
notScr == <<guardVars, clock, appVars, opReqs, oauthLoading, href, revVars, gridApi>>

\* what a handler of AppComponent leaves alone
notApp ==
  <<guardVars, pageFields, snack, clock, scrVars, scrClock, opReqs, oauthLoading, href, revVars>>

\* what a handler of RevisionHistoryComponent or CookieService leaves alone
notRev ==
  <<guardVars, pageFields, snack, search, clock, scrVars, scrClock, appVars,
    opReqs, oauthLoading, href>>

\* ------------------------------------------------------------ guard bodies

\* (variant) the denial redirects without recording the requested route
authGuardMap_lostReturnUrl(status, url) ==
  IF status.authenticated /\ ~status.expired
  THEN [result |-> "Allow", nav |-> <<>>]
  ELSE [result |-> "Deny", nav |-> <<NavigateCall(Absent, Absent)>>]

\* (variant) the grant also asks for hasToken
authGuardMap_needsToken(status, url) ==
  IF status.authenticated /\ ~status.expired /\ status.hasToken
  THEN [result |-> "Allow", nav |-> <<>>]
  ELSE [result |-> "Deny", nav |-> <<NavigateCall(url, Absent)>>]

\* authGuard: the map() callback
authGuardMap(status, url) ==
  IF status.authenticated /\ ~status.expired
  THEN [result |-> "Allow", nav |-> <<>>]
  ELSE [result |-> "Deny", nav |-> <<NavigateCall(url, Absent)>>]

\* authGuard / scrapingGuard / combinedGuard: the catchError() callback
guardCatchError ==
  [result |-> "Deny", nav |-> <<NavigateCall(Absent, Absent)>>]

\* scrapingGuard: the map() callback
scrapingGuardMap(status, url) ==
  IF status.hasCookies /\ status.valid
  THEN [result |-> "Allow", nav |-> <<>>]
  ELSE [result |-> "Deny", nav |-> <<NavigateCall(url, "true")>>]

\* (variant) the nested cookie request is subscribed before the OAuth branch
combinedGuardMap_alwaysInner(status, url) ==
  IF ~status.authenticated \/ status.expired
  THEN [result |-> "Deny", nav |-> <<NavigateCall(url, Absent)>>,
        inner |-> TRUE]
  ELSE [result |-> "Allow", nav |-> <<>>, inner |-> TRUE]

\* (variant) the nested cookie request is subscribed for every authenticated
\* descriptor, expired or not
combinedGuardMap_innerOnExpired(status, url) ==
  IF ~status.authenticated \/ status.expired
  THEN [result |-> "Deny", nav |-> <<NavigateCall(url, Absent)>>,
        inner |-> status.authenticated]
  ELSE [result |-> "Allow", nav |-> <<>>, inner |-> TRUE]

\* combinedGuard: the map() callback; inner tells whether the nested
\* getCookieStatus() request was subscribed
combinedGuardMap(status, url) ==
  IF ~status.authenticated \/ status.expired
  THEN [result |-> "Deny", nav |-> <<NavigateCall(url, Absent)>>,
        inner |-> FALSE]
  ELSE [result |-> "Allow", nav |-> <<>>, inner |-> TRUE]

\* combinedGuard: the nested subscribe's next callback
combinedGuardInnerNext(status, url) ==
  IF ~status.hasCookies \/ ~status.valid
  THEN <<NavigateCall(url, "true")>>
  ELSE <<>>

\* where the router ends up once a guard has emitted and navigated
Landing(result, nav, url, current) ==
  IF nav # <<>>
  THEN IF canActivate(nav[Len(nav)].target) = "none"
       THEN nav[Len(nav)].target
       ELSE current
  ELSE IF result = "Allow" THEN url
  ELSE current

\* the query parameters the router shows once a guard has emitted and
\* navigated
LandingQuery(result, nav, current) ==
  IF nav # <<>>
  THEN IF canActivate(nav[Len(nav)].target) = "none"
       THEN [returnUrl |-> nav[Len(nav)].returnUrl,
             requiresScraping |-> nav[Len(nav)].requiresScraping]
       ELSE current
  ELSE IF result = "Allow" THEN NoQuery
  ELSE current

\* ------------------------------------------------------------ guard actions

\* (variant) scraping is taken as required unless the address says 'false'
queryParamsNext_scrapingByDefault(params, shown) ==
  [returnUrl |-> OrElse(params.returnUrl, "/data-fetch"),
   requiresScraping |-> (params.requiresScraping # "false"),
   snack |-> shown]

\* ngOnInit: the route.queryParams callback
queryParamsNext(params, shown) ==
  [returnUrl |-> OrElse(params.returnUrl, "/data-fetch"),
   requiresScraping |-> (params.requiresScraping = "true"),
   snack |-> IF params.requiresScraping = "true"
             THEN Message(<<"This page requires scraping authentication. Please login below.">>,
                          "warning")
             ELSE shown]

\* route.queryParams of an AuthenticationComponent that is shown and stays
\* shown emits when the step changes the query of the address; everything
\* else outside the guards is left alone
PageFollowsRouter ==
  IF alive = "active" /\ routerUrl = "/authentication"
       /\ routerUrl' = "/authentication" /\ routerQuery' # routerQuery
  THEN LET q == queryParamsNext(routerQuery', snack)
       IN /\ returnUrl' = q.returnUrl
          /\ requiresScraping' = q.requiresScraping
          /\ snack' = q.snack
          /\ UNCHANGED <<alive, authStatus, cookieStatus, scrapingLoading,
                         mfaRequired, scrapingCreds, polling, statusReqs,
                         authReqs, timers, resumes, search, last>>
          /\ UNCHANGED <<clock, scrVars, scrClock, appVars, opReqs, oauthLoading, href, revVars>>
  ELSE UNCHANGED notGuard

Remove(seq, i) == [j \in 1..(Len(seq) - 1) |-> IF j < i THEN seq[j] ELSE seq[j + 1]]

\* no request of the current check is unanswered
CheckSettled == gPc \in {"idle", "returned"} /\ gInner # "pending"

\* the current check as it stays subscribed once another check is started
Superseded ==
  IF CheckSettled THEN <<>>
  ELSE <<[guard |-> gGuard, url |-> gUrl, pc |-> gPc, inner |-> gInner]>>

CanSupersede == Len(gOld) + Len(Superseded) <= MaxSuperseded

\* this.router.url: the path with the query string the router shows (the
\* Router writes the parameters in the order they were given)
RouterUrl ==
  routerUrl
    \o (IF routerQuery = NoQuery THEN "" ELSE "?")
    \o (IF routerQuery.returnUrl = Absent THEN ""
        ELSE "returnUrl=" \o routerQuery.returnUrl)
    \o (IF routerQuery.returnUrl # Absent
           /\ routerQuery.requiresScraping # Absent THEN "&" ELSE "")
    \o (IF routerQuery.requiresScraping = Absent THEN ""
        ELSE "requiresScraping=" \o routerQuery.requiresScraping)

\* the router starts a navigation to a path: the route table picks the guard,
\* and a check that is unanswered becomes an earlier check
StartNavigation(path) ==
  /\ CanSupersede
  /\ gOld' = gOld \o Superseded
  /\ LET url == redirectTo(path)
         g == canActivate(url)
     IN /\ gGuard' = g
        /\ gUrl' = url
        /\ gAuth' = NoResponse
        /\ gCookie' = NoResponse
        /\ gInner' = "none"
        /\ gFailed' = FALSE
        /\ redirects' = <<>>
        /\ IF g = "none"
           THEN /\ gPc' = "returned"
                /\ gResult' = "Allow"
                /\ gReqs' = {}
                /\ routerUrl' = url
                /\ routerQuery' = NoQuery
           ELSE /\ gPc' = "authPending"
                /\ gResult' = "none"
                /\ gReqs' = {"authStatus"}
                /\ routerUrl' = routerUrl
                /\ routerQuery' = routerQuery

\* the user (or a link) asks for a path
Navigation(path) ==
  /\ StartNavigation(path)
  /\ PageFollowsRouter

\* router.navigate([path]) called by a component, carried out: a navigation
\* to the address already shown is ignored; otherwise the navigation starts,
\* and an AuthenticationComponent that is shown and stays shown receives the
\* new query from route.queryParams
RouterCall(path) ==
  IF RouterUrl = redirectTo(path) /\ CheckSettled
  THEN /\ UNCHANGED guardVars
       /\ UNCHANGED <<returnUrl, requiresScraping, snack>>
  ELSE /\ StartNavigation(path)
       /\ IF alive = "active" /\ routerUrl = "/authentication"
             /\ routerUrl' = "/authentication" /\ routerQuery' # routerQuery
          THEN LET q == queryParamsNext(routerQuery', snack)
               IN /\ returnUrl' = q.returnUrl
                  /\ requiresScraping' = q.requiresScraping
                  /\ snack' = q.snack
          ELSE UNCHANGED <<returnUrl, requiresScraping, snack>>

\* scrapingGuard or combinedGuard set on a protected route
Activate(g, url) ==
  /\ CanSupersede
  /\ gOld' = gOld \o Superseded
  /\ UNCHANGED notGuard
  /\ gGuard' = g
  /\ gUrl' = url
  /\ gAuth' = NoResponse
  /\ gCookie' = NoResponse
  /\ gInner' = "none"
  /\ gFailed' = FALSE
  /\ redirects' = <<>>
  /\ gResult' = "none"
  /\ routerUrl' = routerUrl
  /\ routerQuery' = routerQuery
  /\ IF g = "scrapingGuard"
     THEN gPc' = "cookiePending" /\ gReqs' = {"cookieStatus"}
     ELSE gPc' = "authPending" /\ gReqs' = {"authStatus"}

\* GET /auth/status answers the guard
GuardAuthStatusNext(status) ==
  /\ gPc = "authPending"
  /\ gAuth' = status
  /\ gPc' = "returned"
  /\ IF gGuard = "authGuard"
     THEN LET r == authGuardMap(status, gUrl)
          IN /\ gResult' = r.result
             /\ redirects' = r.nav
             /\ routerUrl' = Landing(r.result, r.nav, gUrl, routerUrl)
             /\ routerQuery' = LandingQuery(r.result, r.nav, routerQuery)
             /\ UNCHANGED <<gInner, gReqs>>
     ELSE LET r == combinedGuardMap(status, gUrl)
          IN /\ gResult' = r.result
             /\ redirects' = r.nav
             /\ routerUrl' = Landing(r.result, r.nav, gUrl, routerUrl)
             /\ routerQuery' = LandingQuery(r.result, r.nav, routerQuery)
             /\ gInner' = IF r.inner THEN "pending" ELSE "none"
             /\ gReqs' = IF r.inner THEN gReqs \cup {"cookieStatus"} ELSE gReqs
  /\ UNCHANGED <<gGuard, gUrl, gCookie, gFailed, gOld>>
  /\ PageFollowsRouter

\* GET /auth/status fails: catchError of authGuard and combinedGuard
GuardAuthStatusError ==
  /\ gPc = "authPending"
  /\ gFailed' = TRUE
  /\ gPc' = "returned"
  /\ gResult' = guardCatchError.result
  /\ redirects' = guardCatchError.nav
  /\ routerUrl' =
       Landing(guardCatchError.result, guardCatchError.nav, gUrl, routerUrl)
  /\ routerQuery' =
       LandingQuery(guardCatchError.result, guardCatchError.nav, routerQuery)
  /\ UNCHANGED <<gGuard, gUrl, gAuth, gCookie, gInner, gReqs, gOld>>
  /\ PageFollowsRouter

\* GET /scraping/cookie-status answers scrapingGuard
GuardCookieStatusNext(status) ==
  /\ gPc = "cookiePending"
  /\ gCookie' = status
  /\ gPc' = "returned"
  /\ LET r == scrapingGuardMap(status, gUrl)
     IN /\ gResult' = r.result
        /\ redirects' = r.nav
        /\ routerUrl' = Landing(r.result, r.nav, gUrl, routerUrl)
        /\ routerQuery' = LandingQuery(r.result, r.nav, routerQuery)
  /\ UNCHANGED <<gGuard, gUrl, gAuth, gInner, gReqs, gFailed, gOld>>
  /\ PageFollowsRouter

\* GET /scraping/cookie-status fails: catchError of scrapingGuard
GuardCookieStatusError ==
  /\ gPc = "cookiePending"
  /\ gFailed' = TRUE
  /\ gPc' = "returned"
  /\ gResult' = guardCatchError.result
  /\ redirects' = guardCatchError.nav
  /\ routerUrl' =
       Landing(guardCatchError.result, guardCatchError.nav, gUrl, routerUrl)
  /\ routerQuery' =
       LandingQuery(guardCatchError.result, guardCatchError.nav, routerQuery)
  /\ UNCHANGED <<gGuard, gUrl, gAuth, gCookie, gInner, gReqs, gOld>>
  /\ PageFollowsRouter

\* combinedGuard's nested request answers, after the guard has returned
InnerCookieStatusNext(status) ==
  /\ gInner = "pending"
  /\ gInner' = "done"
  /\ gCookie' = status
  /\ LET nav == combinedGuardInnerNext(status, gUrl)
     IN /\ redirects' = redirects \o nav
        /\ routerUrl' = Landing(gResult, nav, routerUrl, routerUrl)
        /\ routerQuery' = IF nav = <<>> THEN routerQuery
                          ELSE LandingQuery(gResult, nav, routerQuery)
  /\ UNCHANGED <<gGuard, gUrl, gPc, gResult, gAuth, gReqs, gFailed, gOld>>
  /\ PageFollowsRouter

\* combinedGuard's nested request fails: the subscribe has no error callback
InnerCookieStatusError ==
  /\ gInner = "pending"
  /\ UNCHANGED notGuard
  /\ gInner' = "failed"
  /\ gFailed' = TRUE
  /\ UNCHANGED <<gGuard, gUrl, gPc, gResult, gAuth, gCookie, gReqs, gOld,
                 redirects, routerUrl, routerQuery>>

\* a router.navigate call of an earlier check lands; its emission is that of
\* a check the current one has replaced, so an Allow moves nothing
OldNavigates(nav) ==
  /\ routerUrl' = Landing("Deny", nav, routerUrl, routerUrl)
  /\ routerQuery' = LandingQuery("Deny", nav, routerQuery)
  /\ UNCHANGED <<gGuard, gUrl, gPc, gResult, gAuth, gCookie, gInner, gReqs,
                 gFailed, redirects>>
  /\ PageFollowsRouter

\* GET /auth/status answers an earlier check of authGuard or combinedGuard
OldAuthStatusNext(i, status) ==
  /\ i \in 1..Len(gOld)
  /\ gOld[i].pc = "authPending"
  /\ LET r == IF gOld[i].guard = "authGuard"
              THEN authGuardMap(status, gOld[i].url) @@ [inner |-> FALSE]
              ELSE combinedGuardMap(status, gOld[i].url)
     IN /\ gOld' = IF r.inner
                   THEN [gOld EXCEPT ![i] =
                           [@ EXCEPT !.pc = "returned", !.inner = "pending"]]
                   ELSE Remove(gOld, i)
        /\ OldNavigates(r.nav)

\* GET /scraping/cookie-status answers an earlier check of scrapingGuard
OldCookieStatusNext(i, status) ==
  /\ i \in 1..Len(gOld)
  /\ gOld[i].pc = "cookiePending"
  /\ gOld' = Remove(gOld, i)
  /\ OldNavigates(scrapingGuardMap(status, gOld[i].url).nav)

\* the outer request of an earlier check fails: catchError
OldStatusError(i) ==
  /\ i \in 1..Len(gOld)
  /\ gOld[i].pc \in {"authPending", "cookiePending"}
  /\ gOld' = Remove(gOld, i)
  /\ OldNavigates(guardCatchError.nav)

\* the nested request of an earlier combinedGuard check answers
OldInnerCookieStatusNext(i, status) ==
  /\ i \in 1..Len(gOld)
  /\ gOld[i].inner = "pending"
  /\ gOld' = Remove(gOld, i)
  /\ OldNavigates(combinedGuardInnerNext(status, gOld[i].url))

\* the nested request of an earlier combinedGuard check fails
OldInnerCookieStatusError(i) ==
  /\ i \in 1..Len(gOld)
  /\ gOld[i].inner = "pending"
  /\ gOld' = Remove(gOld, i)
  /\ OldNavigates(<<>>)

\* -------------------------------------------- AuthenticationComponent bodies

\* loadStatus(), called calls times: one getAuthStatus and one getCookieStatus
\* request each time
loadStatus(reqs, calls) ==
  [auth |-> reqs.auth + calls, cookie |-> reqs.cookie + calls]

CanLoadStatus(calls) ==
  /\ statusReqs.auth + calls <= MaxStatus
  /\ statusReqs.cookie + calls <= MaxStatus

\* (variant) destroy$ does not end the status requests that are under way
takeUntilDestroy_keepsRequests(reqs) == reqs

\* takeUntil(this.destroy$) on the requests of loadStatus, once destroy$ fires
takeUntilDestroy(reqs) == [auth |-> 0, cookie |-> 0]

\* no request of a button of the page is under way: validateCookies,
\* clearCookies, refreshToken, getAuthUrl
NoOpReqs == [validate |-> 0, clear |-> 0, refresh |-> 0, authUrl |-> 0]

CanSetTimeout(n) == timers + Len(resumes) + n <= MaxTimers


\* (variant) the parser reports success whenever no error is in the address
handleOAuthCallback_notifiesAlways(srch, shown) ==
  IF srch.error # Absent
  THEN [snack |-> Message(IF srch.description # Absent
                          THEN <<"OAuth error: ", srch.error, " - ",
                                 srch.description>>
                          ELSE <<"OAuth error: ", srch.error>>, "error"),
        loads |-> 0, timer |-> 0, search |-> NoCallback]
  ELSE [snack |-> Message(<<"OAuth authentication successful!">>, "success"),
        loads |-> 0, timer |-> 0, search |-> NoCallback]

\* handleOAuthCallback: loads counts its loadStatus() calls, timer its
\* setTimeout redirects, search is the address after replaceState
handleOAuthCallback(srch, shown) ==
  IF srch.success = "true"
  THEN [snack |-> Message(<<"OAuth authentication successful!">>, "success"),
        loads |-> 1, timer |-> 1, search |-> NoCallback]
  ELSE IF srch.error # Absent /\ srch.error # ""
  THEN [snack |-> Message(IF srch.description # Absent /\ srch.description # ""
                          THEN <<"OAuth error: ", srch.error, " - ",
                                 srch.description>>
                          ELSE <<"OAuth error: ", srch.error>>, "error"),
        loads |-> 0, timer |-> 0, search |-> NoCallback]
  ELSE [snack |-> shown, loads |-> 0, timer |-> 0, search |-> srch]

\* (variant) the MFA code is not asked for before submitting
authenticateScrapingInvalid_noMfaCheck(creds, mfa) ==
  IF creds.email = "" \/ creds.password = ""
  THEN "Email and password are required"
  ELSE Absent

\* authenticateScraping: the local checks; Absent when they pass
authenticateScrapingInvalid(creds, mfa) ==
  IF creds.email = "" \/ creds.password = ""
  THEN "Email and password are required"
  ELSE IF mfa /\ creds.mfaCode = ""
  THEN "MFA code is required"
  ELSE Absent

MfaPrompt == "MFA code required. Please enter the 6-digit code."

\* (variant) the form is cleared on every 2xx answer
authenticateScrapingNext_clearsOnMfa(response) ==
  [mfaRequired |-> response.mfaRequired,
   snack |-> IF response.mfaRequired
             THEN Message(<<OrElse(response.message, MfaPrompt)>>, "warning")
             ELSE Message(<<"Scraping authentication successful!">>, "success"),
   scrapingLoading |-> FALSE,
   scrapingCreds |-> EmptyCreds,
   loads |-> IF response.mfaRequired THEN 0 ELSE 1,
   timer |-> IF ~response.mfaRequired /\ requiresScraping
                /\ returnUrl # "/authentication" THEN 1 ELSE 0]

\* (variant) every successful login schedules the redirect
authenticateScrapingNext_alwaysRedirects(response) ==
  IF response.mfaRequired
  THEN [mfaRequired |-> TRUE,
        snack |-> Message(<<OrElse(response.message, MfaPrompt)>>, "warning"),
        scrapingLoading |-> FALSE,
        scrapingCreds |-> scrapingCreds,
        loads |-> 0,
        timer |-> 0]
  ELSE [mfaRequired |-> FALSE,
        snack |-> Message(<<"Scraping authentication successful!">>, "success"),
        scrapingLoading |-> FALSE,
        scrapingCreds |-> EmptyCreds,
        loads |-> 1,
        timer |-> 1]

\* authenticateScraping: the subscribe's next callback
authenticateScrapingNext(response) ==
  IF response.mfaRequired
  THEN [mfaRequired |-> TRUE,
        snack |-> Message(<<OrElse(response.message, MfaPrompt)>>, "warning"),
        scrapingLoading |-> FALSE,
        scrapingCreds |-> scrapingCreds,
        loads |-> 0,
        timer |-> 0]
  ELSE [mfaRequired |-> FALSE,
        snack |-> Message(<<"Scraping authentication successful!">>, "success"),
        scrapingLoading |-> FALSE,
        scrapingCreds |-> EmptyCreds,
        loads |-> 1,
        timer |-> IF requiresScraping /\ returnUrl # "/authentication"
                  THEN 1 ELSE 0]

\* (variant) the error channel reports the MFA demand but leaves the spinner on
authenticateScrapingError_keepsLoading(err) ==
  [mfaRequired |-> IF err.mfaRequired THEN TRUE ELSE mfaRequired,
   snack |-> IF err.mfaRequired
             THEN Message(<<OrElse(err.message, MfaPrompt)>>, "warning")
             ELSE Message(<<OrElse(err.message,
                                   OrElse(err.error, "Authentication failed"))>>,
                          "error"),
   scrapingLoading |-> IF err.mfaRequired THEN scrapingLoading ELSE FALSE,
   scrapingCreds |-> scrapingCreds,
   loads |-> 0,
   timer |-> 0]

\* authenticateScraping: the subscribe's error callback
authenticateScrapingError(err) ==
  [mfaRequired |-> IF err.mfaRequired THEN TRUE ELSE mfaRequired,
   snack |-> IF err.mfaRequired
             THEN Message(<<OrElse(err.message, MfaPrompt)>>, "warning")
             ELSE Message(<<OrElse(err.message,
                                   OrElse(err.error, "Authentication failed"))>>,
                          "error"),
   scrapingLoading |-> FALSE,
   scrapingCreds |-> scrapingCreds,
   loads |-> 0,
   timer |-> 0]

\* ------------------------------------------- AuthenticationComponent actions

Handler(op) == [op |-> op, arg |-> NoResponse]

\* ngOnInit: query parameters, loadStatus, handleOAuthCallback, polling
NgOnInit(params) ==
  /\ routerUrl = "/authentication"
  /\ alive = "constructed"
  /\ LET q == queryParamsNext(params, snack)
         cb == handleOAuthCallback(search, q.snack)
     IN /\ CanLoadStatus(1 + cb.loads)
        /\ CanSetTimeout(cb.timer)
        /\ returnUrl' = q.returnUrl
        /\ requiresScraping' = q.requiresScraping
        /\ snack' = cb.snack
        /\ statusReqs' = loadStatus(statusReqs, 1 + cb.loads)
        /\ timers' = timers + cb.timer
        /\ search' = cb.search
  /\ alive' = "active"
  /\ polling' = TRUE
  /\ clock' = 0
  /\ last' = Handler("ngOnInit")
  /\ UNCHANGED <<authStatus, cookieStatus, scrapingLoading, mfaRequired,
                 scrapingCreds, authReqs, resumes, opReqs,
                 oauthLoading, href>>
  /\ UNCHANGED notPagePoller

\* ngOnDestroy: destroy$ ends the interval and every takeUntil(destroy$)
NgOnDestroy ==
  /\ alive \in {"active", "destroyed"}
  /\ alive' = "destroyed"
  /\ polling' = FALSE
  /\ clock' = 0
  /\ statusReqs' = takeUntilDestroy(statusReqs)
  /\ authReqs' = <<>>
  /\ last' = [op |-> "ngOnDestroy", arg |-> NoResponse, dropped |-> statusReqs]
  /\ opReqs' = NoOpReqs
  /\ UNCHANGED <<oauthLoading, href>>
  /\ UNCHANGED <<authStatus, cookieStatus, scrapingLoading, mfaRequired,
                 scrapingCreds, returnUrl, requiresScraping, timers, resumes,
                 snack, search>>
  /\ UNCHANGED notPagePoller

\* startStatusPolling: one tick of interval(30000)
PollTick ==
  /\ alive = "active"
  /\ polling
  /\ CanLoadStatus(1)
  /\ statusReqs' = loadStatus(statusReqs, 1)
  /\ clock' = 0
  /\ last' = Handler("poll")
  /\ UNCHANGED <<alive, authStatus, cookieStatus, scrapingLoading, mfaRequired,
                 scrapingCreds, returnUrl, requiresScraping, polling, authReqs,
                 timers, resumes, snack, search, opReqs,
                 oauthLoading, href>>
  /\ UNCHANGED notPagePoller

\* loadStatus: getAuthStatus next
StatusAuthNext(status) ==
  /\ statusReqs.auth > 0
  /\ authStatus' = status
  /\ statusReqs' = [statusReqs EXCEPT !.auth = @ - 1]
  /\ last' = Handler("loadStatus.auth.next")
  /\ UNCHANGED <<alive, cookieStatus, scrapingLoading, mfaRequired,
                 scrapingCreds, returnUrl, requiresScraping, polling, authReqs,
                 timers, resumes, snack, search>>
  /\ UNCHANGED notPage

\* (variant) a failed getAuthStatus ends the interval
StatusAuthError_endsPoller ==
  /\ statusReqs.auth > 0
  /\ authStatus' = DefaultAuthStatus
  /\ statusReqs' = [statusReqs EXCEPT !.auth = @ - 1]
  /\ polling' = FALSE
  /\ last' = Handler("loadStatus.auth.error")
  /\ UNCHANGED <<alive, cookieStatus, scrapingLoading, mfaRequired,
                 scrapingCreds, returnUrl, requiresScraping, authReqs,
                 timers, resumes, snack, search>>
  /\ UNCHANGED notPage

\* loadStatus: getAuthStatus error
StatusAuthError ==
  /\ statusReqs.auth > 0
  /\ authStatus' = DefaultAuthStatus
  /\ statusReqs' = [statusReqs EXCEPT !.auth = @ - 1]
  /\ last' = Handler("loadStatus.auth.error")
  /\ UNCHANGED <<alive, cookieStatus, scrapingLoading, mfaRequired,
                 scrapingCreds, returnUrl, requiresScraping, polling, authReqs,
                 timers, resumes, snack, search>>
  /\ UNCHANGED notPage

\* loadStatus: getCookieStatus next
StatusCookieNext(status) ==
  /\ statusReqs.cookie > 0
  /\ cookieStatus' = status
  /\ statusReqs' = [statusReqs EXCEPT !.cookie = @ - 1]
  /\ last' = Handler("loadStatus.cookie.next")
  /\ UNCHANGED <<alive, authStatus, scrapingLoading, mfaRequired,
                 scrapingCreds, returnUrl, requiresScraping, polling, authReqs,
                 timers, resumes, snack, search>>
  /\ UNCHANGED notPage

\* loadStatus: getCookieStatus error
StatusCookieError ==
  /\ statusReqs.cookie > 0
  /\ cookieStatus' = DefaultCookieStatus
  /\ statusReqs' = [statusReqs EXCEPT !.cookie = @ - 1]
  /\ last' = Handler("loadStatus.cookie.error")
  /\ UNCHANGED <<alive, authStatus, scrapingLoading, mfaRequired,
                 scrapingCreds, returnUrl, requiresScraping, polling, authReqs,
                 timers, resumes, snack, search>>
  /\ UNCHANGED notPage

\* the user changes one field of the credential form ([(ngModel)] on
\* scrapingCreds)
EditCreds(creds) ==
  /\ alive = "active"
  /\ Cardinality({f \in DOMAIN creds : creds[f] # scrapingCreds[f]}) = 1
  /\ scrapingCreds' = creds
  /\ last' = Handler("edit")
  /\ UNCHANGED <<alive, authStatus, cookieStatus, scrapingLoading, mfaRequired,
                 returnUrl, requiresScraping, polling, statusReqs, authReqs,
                 timers, resumes, snack, search>>
  /\ UNCHANGED notPage

\* authenticateScraping(ngForm), up to the subscribe
AuthenticateScraping ==
  /\ alive = "active"
  /\ LET why == authenticateScrapingInvalid(scrapingCreds, mfaRequired)
     IN IF why # Absent
        THEN /\ snack' = Message(<<why>>, "warning")
             /\ last' = Handler("authenticateScraping.invalid")
             /\ UNCHANGED <<scrapingLoading, authReqs>>
        ELSE /\ Len(authReqs) < MaxInflight
             /\ scrapingLoading' = TRUE
             /\ authReqs' = Append(authReqs, scrapingCreds)
             /\ last' = Handler("authenticateScraping.submit")
             /\ UNCHANGED snack
  /\ UNCHANGED <<alive, authStatus, cookieStatus, mfaRequired, scrapingCreds,
                 returnUrl, requiresScraping, polling, statusReqs, timers,
                 resumes, search>>
  /\ UNCHANGED notPage

\* the effect r of an authenticateScraping callback on the i-th request
AuthenticateAnswered(i, r, op, arg) ==
  /\ i \in 1..Len(authReqs)
  /\ CanLoadStatus(r.loads)
  /\ CanSetTimeout(r.timer)
  /\ mfaRequired' = r.mfaRequired
  /\ snack' = r.snack
  /\ scrapingLoading' = r.scrapingLoading
  /\ scrapingCreds' = r.scrapingCreds
  /\ statusReqs' = loadStatus(statusReqs, r.loads)
  /\ timers' = timers + r.timer
  /\ authReqs' = Remove(authReqs, i)
  /\ last' = [op |-> op, arg |-> arg, body |-> authReqs[i],
              challenged |-> mfaRequired]
  /\ UNCHANGED <<alive, authStatus, cookieStatus, returnUrl, requiresScraping,
                 polling, resumes, search>>
  /\ UNCHANGED notPage

\* POST /scraping/authenticate answers 2xx
AuthenticateNext(i, response) ==
  AuthenticateAnswered(i, authenticateScrapingNext(response),
                       "authenticateScraping.next", response)

\* POST /scraping/authenticate fails
AuthenticateError(i, err) ==
  AuthenticateAnswered(i, authenticateScrapingError(err),
                       "authenticateScraping.error", err)

\* handleOAuthCallback() is invoked again on the address as it is now
HandleOAuthCallback ==
  /\ alive = "active"
  /\ LET cb == handleOAuthCallback(search, snack)
     IN /\ CanLoadStatus(cb.loads)
        /\ CanSetTimeout(cb.timer)
        /\ snack' = cb.snack
        /\ statusReqs' = loadStatus(statusReqs, cb.loads)
        /\ timers' = timers + cb.timer
        /\ search' = cb.search
  /\ last' = Handler("handleOAuthCallback")
  /\ UNCHANGED <<alive, authStatus, cookieStatus, scrapingLoading, mfaRequired,
                 scrapingCreds, returnUrl, requiresScraping, polling, authReqs,
                 resumes>>
  /\ UNCHANGED notPage

\* a setTimeout(() => router.navigate([this.returnUrl]), 1500) fires: resumes
\* records the call, and the router carries it out
TimerFire ==
  /\ timers > 0
  /\ timers' = timers - 1
  /\ resumes' = Append(resumes, returnUrl)
  /\ RouterCall(returnUrl)
  /\ last' = Handler("timer")
  /\ UNCHANGED <<alive, authStatus, cookieStatus, scrapingLoading, mfaRequired,
                 scrapingCreds, polling, statusReqs, authReqs, search>>
  /\ UNCHANGED <<clock, scrVars, scrClock, appVars, opReqs, oauthLoading, href,
                 revVars>>

\* most validateCookies, and most clearCookies, requests the page has under way
MaxOpReqs == 1

\* validateCookies(), up to the subscribe
ValidateCookies ==
  /\ alive = "active"
  /\ opReqs.validate < MaxOpReqs
  /\ scrapingLoading' = TRUE
  /\ opReqs' = [opReqs EXCEPT !.validate = @ + 1]
  /\ last' = Handler("validateCookies")
  /\ UNCHANGED <<alive, authStatus, cookieStatus, mfaRequired, scrapingCreds,
                 returnUrl, requiresScraping, polling, statusReqs, authReqs,
                 timers, resumes, snack, search>>
  /\ UNCHANGED <<guardVars, clock, scrVars, scrClock, appVars, revVars,
                 oauthLoading, href>>

\* validateCookies: next
ValidateCookiesNext(response) ==
  /\ opReqs.validate > 0
  /\ CanLoadStatus(1)
  /\ snack' = IF response.valid
              THEN Message(<<"Cookies are valid">>, "success")
              ELSE Message(<<"Cookies are invalid or expired">>, "warning")
  /\ statusReqs' = loadStatus(statusReqs, 1)
  /\ scrapingLoading' = FALSE
  /\ opReqs' = [opReqs EXCEPT !.validate = @ - 1]
  /\ last' = [op |-> "validateCookies.next", arg |-> response]
  /\ UNCHANGED <<alive, authStatus, cookieStatus, mfaRequired, scrapingCreds,
                 returnUrl, requiresScraping, polling, authReqs, timers,
                 resumes, search>>
  /\ UNCHANGED <<guardVars, clock, scrVars, scrClock, appVars, revVars,
                 oauthLoading, href>>

\* validateCookies: error
ValidateCookiesError ==
  /\ opReqs.validate > 0
  /\ snack' = Message(<<"Failed to validate cookies">>, "error")
  /\ scrapingLoading' = FALSE
  /\ opReqs' = [opReqs EXCEPT !.validate = @ - 1]
  /\ last' = Handler("validateCookies.error")
  /\ UNCHANGED <<alive, authStatus, cookieStatus, mfaRequired, scrapingCreds,
                 returnUrl, requiresScraping, polling, statusReqs, authReqs,
                 timers, resumes, search>>
  /\ UNCHANGED <<guardVars, clock, scrVars, scrClock, appVars, revVars,
                 oauthLoading, href>>

\* clearCookies(), up to the subscribe
ClearCookies ==
  /\ alive = "active"
  /\ opReqs.clear < MaxOpReqs
  /\ scrapingLoading' = TRUE
  /\ opReqs' = [opReqs EXCEPT !.clear = @ + 1]
  /\ last' = Handler("clearCookies")
  /\ UNCHANGED <<alive, authStatus, cookieStatus, mfaRequired, scrapingCreds,
                 returnUrl, requiresScraping, polling, statusReqs, authReqs,
                 timers, resumes, snack, search>>
  /\ UNCHANGED <<guardVars, clock, scrVars, scrClock, appVars, revVars,
                 oauthLoading, href>>

\* (variant) the answer of the DELETE leaves the MFA challenge pending
clearCookiesNext_keepsMfa == mfaRequired

\* clearCookies, next: this.mfaRequired = false
clearCookiesNext == FALSE

\* clearCookies: next
ClearCookiesNext ==
  /\ opReqs.clear > 0
  /\ CanLoadStatus(1)
  /\ snack' = Message(<<"Cookies cleared successfully">>, "success")
  /\ mfaRequired' = clearCookiesNext
  /\ statusReqs' = loadStatus(statusReqs, 1)
  /\ scrapingLoading' = FALSE
  /\ opReqs' = [opReqs EXCEPT !.clear = @ - 1]
  /\ last' = Handler("clearCookies.next")
  /\ UNCHANGED <<alive, authStatus, cookieStatus, scrapingCreds, returnUrl,
                 requiresScraping, polling, authReqs, timers, resumes, search>>
  /\ UNCHANGED <<guardVars, clock, scrVars, scrClock, appVars, revVars,
                 oauthLoading, href>>

\* clearCookies: error
ClearCookiesError ==
  /\ opReqs.clear > 0
  /\ snack' = Message(<<"Failed to clear cookies">>, "error")
  /\ scrapingLoading' = FALSE
  /\ opReqs' = [opReqs EXCEPT !.clear = @ - 1]
  /\ last' = Handler("clearCookies.error")
  /\ UNCHANGED <<alive, authStatus, cookieStatus, mfaRequired, scrapingCreds,
                 returnUrl, requiresScraping, polling, statusReqs, authReqs,
                 timers, resumes, search>>
  /\ UNCHANGED <<guardVars, clock, scrVars, scrClock, appVars, revVars,
                 oauthLoading, href>>

\* --------------------------------------------------- ScrapingComponent bodies

\* field initialiser of ScrapingComponent.cookieStatus, and what the error
\* callback of getCookieStatus stores (lastValidated is null in both)
ScrDefaultCookieStatus == [hasCookies |-> FALSE, valid |-> FALSE]

\* unanswered requests of the screen by kind; auth counts getAuthStatus, which
\* no method of ScrapingComponent calls
NoScrReqs ==
  [auth |-> 0, cookie |-> 0, revisions |-> 0, fetch |-> 0, validate |-> 0]

\* loadStatus(): one getCookieStatus and one getRevisionHistories request
scrLoadStatus(reqs) == [reqs EXCEPT !.cookie = @ + 1, !.revisions = @ + 1]

CanScrLoadStatus(reqs) ==
  /\ reqs.cookie < MaxStatus
  /\ reqs.revisions < MaxStatus

\* (variant) destroy$ does not end the requests of the screen
scrTakeUntilDestroy_keepsRequests(reqs) == reqs

\* takeUntil(this.destroy$) on the requests of the screen, once destroy$ fires
scrTakeUntilDestroy(reqs) == NoScrReqs

\* ------------------------------------------------- ScrapingComponent actions

\* ngOnInit: loadStatus, startStatusPolling
ScrNgOnInit ==
  /\ routerUrl = "/scraping"
  /\ scrAlive = "constructed"
  /\ scrAlive' = "active"
  /\ scrReqs' = scrLoadStatus(scrReqs)
  /\ scrPolling' = TRUE
  /\ scrClock' = 0
  /\ last' = Handler("scr.ngOnInit")
  /\ UNCHANGED <<scrCookieStatus, scrRevisionStats, scrLoading, scrFetching,
                 scrLate, scrTimers>>
  /\ UNCHANGED <<alive, authStatus, cookieStatus, scrapingLoading, mfaRequired,
                 scrapingCreds, returnUrl, requiresScraping, polling,
                 statusReqs, authReqs, timers, resumes, snack, search>>
  /\ UNCHANGED notScr

\* ngOnDestroy: destroy$ ends the interval and every takeUntil(destroy$) that
\* was subscribed before it; the setTimeout of fetchAllRevisions stays
ScrNgOnDestroy ==
  /\ scrAlive \in {"active", "destroyed"}
  /\ scrAlive' = "destroyed"
  /\ scrPolling' = FALSE
  /\ scrClock' = 0
  /\ scrReqs' = scrTakeUntilDestroy(scrReqs)
  /\ last' = [op |-> "scr.ngOnDestroy", arg |-> NoResponse,
              dropped |-> scrReqs]
  /\ UNCHANGED <<scrCookieStatus, scrRevisionStats, scrLoading, scrFetching,
                 scrLate, scrTimers>>
  /\ UNCHANGED <<alive, authStatus, cookieStatus, scrapingLoading, mfaRequired,
                 scrapingCreds, returnUrl, requiresScraping, polling,
                 statusReqs, authReqs, timers, resumes, snack, search>>
  /\ UNCHANGED notScr

\* startStatusPolling: one tick of interval(30000)
ScrPollTick ==
  /\ scrAlive = "active"
  /\ scrPolling
  /\ CanScrLoadStatus(scrReqs)
  /\ scrReqs' = scrLoadStatus(scrReqs)
  /\ scrClock' = 0
  /\ last' = Handler("scr.poll")
  /\ UNCHANGED <<scrAlive, scrCookieStatus, scrRevisionStats, scrLoading,
                 scrFetching, scrPolling, scrLate, scrTimers>>
  /\ UNCHANGED <<alive, authStatus, cookieStatus, scrapingLoading, mfaRequired,
                 scrapingCreds, returnUrl, requiresScraping, polling,
                 statusReqs, authReqs, timers, resumes, snack, search>>
  /\ UNCHANGED notScr

\* refreshStats(): the user asks for a reload
ScrRefreshStats ==
  /\ scrAlive = "active"
  /\ CanScrLoadStatus(scrReqs)
  /\ scrReqs' = scrLoadStatus(scrReqs)
  /\ last' = Handler("scr.refreshStats")
  /\ UNCHANGED <<scrAlive, scrCookieStatus, scrRevisionStats, scrLoading,
                 scrFetching, scrPolling, scrLate, scrTimers>>
  /\ UNCHANGED <<alive, authStatus, cookieStatus, scrapingLoading, mfaRequired,
                 scrapingCreds, returnUrl, requiresScraping, polling,
                 statusReqs, authReqs, timers, resumes, snack, search>>
  /\ UNCHANGED <<notScr, scrClock>>

\* a callback of the screen runs on one of its unanswered requests of a kind:
\* late tells whether the request was subscribed after destroy$ completed
ScrAnswered(kind, late, op) ==
  /\ IF late
     THEN /\ scrLate[kind] > 0
          /\ scrLate' = [scrLate EXCEPT ![kind] = @ - 1]
          /\ UNCHANGED scrReqs
     ELSE /\ scrReqs[kind] > 0
          /\ scrReqs' = [scrReqs EXCEPT ![kind] = @ - 1]
          /\ UNCHANGED scrLate
  /\ last' = [op |-> op, arg |-> NoResponse, late |-> late]
  /\ UNCHANGED <<alive, authStatus, cookieStatus, scrapingLoading, mfaRequired,
                 scrapingCreds, returnUrl, requiresScraping, polling,
                 statusReqs, authReqs, timers, resumes, search>>
  /\ UNCHANGED <<notScr, scrClock>>

\* loadStatus: getCookieStatus next
ScrCookieNext(status, late) ==
  /\ ScrAnswered("cookie", late, "scr.loadStatus.cookie.next")
  /\ scrCookieStatus' = status
  /\ UNCHANGED <<scrAlive, scrRevisionStats, scrLoading, scrFetching,
                 scrPolling, scrTimers, snack>>

\* loadStatus: getCookieStatus error
ScrCookieError(late) ==
  /\ ScrAnswered("cookie", late, "scr.loadStatus.cookie.error")
  /\ scrCookieStatus' = ScrDefaultCookieStatus
  /\ UNCHANGED <<scrAlive, scrRevisionStats, scrLoading, scrFetching,
                 scrPolling, scrTimers, snack>>

\* loadStatus: getRevisionHistories next (the grid rows are not modelled)
ScrRevisionsNext(late) ==
  /\ ScrAnswered("revisions", late, "scr.loadStatus.revisions.next")
  /\ scrRevisionStats' = "loaded"
  /\ UNCHANGED <<scrAlive, scrCookieStatus, scrLoading, scrFetching,
                 scrPolling, scrTimers, snack>>

\* loadStatus: getRevisionHistories error
ScrRevisionsError(late) ==
  /\ ScrAnswered("revisions", late, "scr.loadStatus.revisions.error")
  /\ scrRevisionStats' = "zero"
  /\ UNCHANGED <<scrAlive, scrCookieStatus, scrLoading, scrFetching,
                 scrPolling, scrTimers, snack>>

\* (variant) fetchAllRevisions() starts the fetch without reading cookieStatus
ScrFetchAllRevisions_unchecked ==
  /\ scrAlive = "active"
  /\ IF FALSE
     THEN /\ snack' = Message(<<"Please authenticate first in the Authentication page">>,
                              "warning")
          /\ last' = Handler("scr.fetchAllRevisions.invalid")
          /\ UNCHANGED <<scrFetching, scrLoading, scrReqs>>
     ELSE /\ scrReqs.fetch < MaxInflight
          /\ scrFetching' = TRUE
          /\ scrLoading' = TRUE
          /\ snack' = Message(<<"Starting revision history fetch for up to 200 pages (batch size: ",
                                "10", ")...">>, "info")
          /\ scrReqs' = [scrReqs EXCEPT !.fetch = @ + 1]
          /\ last' = Handler("scr.fetchAllRevisions.submit")
  /\ UNCHANGED <<scrAlive, scrCookieStatus, scrRevisionStats, scrPolling,
                 scrLate, scrTimers>>
  /\ UNCHANGED <<alive, authStatus, cookieStatus, scrapingLoading, mfaRequired,
                 scrapingCreds, returnUrl, requiresScraping, polling,
                 statusReqs, authReqs, timers, resumes, search>>
  /\ UNCHANGED <<notScr, scrClock>>

\* fetchAllRevisions(), up to the subscribe (batchSize keeps its initial 10)
ScrFetchAllRevisions ==
  /\ scrAlive = "active"
  /\ IF ~scrCookieStatus.valid
     THEN /\ snack' = Message(<<"Please authenticate first in the Authentication page">>,
                              "warning")
          /\ last' = Handler("scr.fetchAllRevisions.invalid")
          /\ UNCHANGED <<scrFetching, scrLoading, scrReqs>>
     ELSE /\ scrReqs.fetch < MaxInflight
          /\ scrFetching' = TRUE
          /\ scrLoading' = TRUE
          /\ snack' = Message(<<"Starting revision history fetch for up to 200 pages (batch size: ",
                                "10", ")...">>, "info")
          /\ scrReqs' = [scrReqs EXCEPT !.fetch = @ + 1]
          /\ last' = Handler("scr.fetchAllRevisions.submit")
  /\ UNCHANGED <<scrAlive, scrCookieStatus, scrRevisionStats, scrPolling,
                 scrLate, scrTimers>>
  /\ UNCHANGED <<alive, authStatus, cookieStatus, scrapingLoading, mfaRequired,
                 scrapingCreds, returnUrl, requiresScraping, polling,
                 statusReqs, authReqs, timers, resumes, search>>
  /\ UNCHANGED <<notScr, scrClock>>

\* fetchAllRevisions: the subscribe's next callback
ScrFetchNext(message) ==
  /\ ScrAnswered("fetch", FALSE, "scr.fetchAllRevisions.next")
  /\ scrTimers < MaxTimers
  /\ snack' = Message(<<OrElse(message, "Revision history fetch complete!")>>,
                      "success")
  /\ scrFetching' = FALSE
  /\ scrLoading' = FALSE
  /\ scrTimers' = scrTimers + 1
  /\ UNCHANGED <<scrAlive, scrCookieStatus, scrRevisionStats, scrPolling>>

\* fetchAllRevisions: the subscribe's error callback
ScrFetchError(message) ==
  /\ ScrAnswered("fetch", FALSE, "scr.fetchAllRevisions.error")
  /\ snack' = Message(<<OrElse(message,
                               "Failed to start revision history fetch")>>,
                      "error")
  /\ scrFetching' = FALSE
  /\ scrLoading' = FALSE
  /\ UNCHANGED <<scrAlive, scrCookieStatus, scrRevisionStats, scrPolling,
                 scrTimers>>

\* the setTimeout(() => this.loadStatus(), 2000) of fetchAllRevisions fires:
\* once destroy$ has completed, takeUntil(destroy$) no longer ends a request
ScrTimerFire ==
  /\ scrTimers > 0
  /\ scrTimers' = scrTimers - 1
  /\ IF scrAlive = "destroyed"
     THEN /\ CanScrLoadStatus(scrLate)
          /\ scrLate' = scrLoadStatus(scrLate)
          /\ UNCHANGED scrReqs
     ELSE /\ CanScrLoadStatus(scrReqs)
          /\ scrReqs' = scrLoadStatus(scrReqs)
          /\ UNCHANGED scrLate
  /\ last' = Handler("scr.timer")
  /\ UNCHANGED <<scrAlive, scrCookieStatus, scrRevisionStats, scrLoading,
                 scrFetching, scrPolling>>
  /\ UNCHANGED <<alive, authStatus, cookieStatus, scrapingLoading, mfaRequired,
                 scrapingCreds, returnUrl, requiresScraping, polling,
                 statusReqs, authReqs, timers, resumes, snack, search>>
  /\ UNCHANGED <<notScr, scrClock>>

\* what the validateCookies handlers and the grid handlers of the screen leave
\* alone
ScrButtonUnchanged ==
  /\ UNCHANGED <<scrAlive, scrCookieStatus, scrRevisionStats, scrFetching,
                 scrPolling, scrLate, scrTimers>>
  /\ UNCHANGED <<alive, authStatus, cookieStatus, scrapingLoading, mfaRequired,
                 scrapingCreds, returnUrl, requiresScraping, polling,
                 statusReqs, authReqs, timers, resumes, search>>
  /\ UNCHANGED <<guardVars, clock, scrClock, appVars, opReqs, oauthLoading, href,
                 revVars>>

\* validateCookies(), up to the subscribe
ScrValidateCookies ==
  /\ scrAlive = "active"
  /\ scrReqs.validate < MaxOpReqs
  /\ scrLoading' = TRUE
  /\ scrReqs' = [scrReqs EXCEPT !.validate = @ + 1]
  /\ last' = Handler("scr.validateCookies")
  /\ UNCHANGED <<snack, gridApi>>
  /\ ScrButtonUnchanged

\* validateCookies: next
ScrValidateNext(response) ==
  /\ scrReqs.validate > 0
  /\ CanScrLoadStatus(scrReqs)
  /\ snack' = IF response.valid
              THEN Message(<<"Cookies are valid">>, "success")
              ELSE Message(<<"Cookies are invalid or expired">>, "warning")
  /\ scrReqs' = scrLoadStatus([scrReqs EXCEPT !.validate = @ - 1])
  /\ scrLoading' = FALSE
  /\ last' = [op |-> "scr.validateCookies.next", arg |-> response,
              late |-> FALSE]
  /\ UNCHANGED gridApi
  /\ ScrButtonUnchanged

\* validateCookies: error
ScrValidateError ==
  /\ scrReqs.validate > 0
  /\ snack' = Message(<<"Failed to validate cookies">>, "error")
  /\ scrReqs' = [scrReqs EXCEPT !.validate = @ - 1]
  /\ scrLoading' = FALSE
  /\ last' = [op |-> "scr.validateCookies.error", arg |-> NoResponse,
              late |-> FALSE]
  /\ UNCHANGED gridApi
  /\ ScrButtonUnchanged

\* onGridReady: this.gridApi = params.api
ScrOnGridReady ==
  /\ scrAlive = "active"
  /\ gridApi' = TRUE
  /\ last' = Handler("scr.onGridReady")
  /\ UNCHANGED <<scrLoading, scrReqs, snack>>
  /\ ScrButtonUnchanged

\* exportToCSV, exportToExcel, clearFilters: if (!this.gridApi) return; then
\* the call on the grid and the message
GridMessages == {"Exported to CSV", "Exported to Excel", "Filters cleared"}

ScrGridAction(message) ==
  /\ scrAlive = "active"
  /\ snack' = IF gridApi THEN Message(<<message>>, "success") ELSE snack
  /\ last' = [op |-> "scr.grid", arg |-> NoResponse, message |-> message]
  /\ UNCHANGED <<scrLoading, scrReqs, gridApi>>
  /\ ScrButtonUnchanged

\* resetGrid: if (!this.gridApi) return; past it, gridColumnApi, which no
\* statement assigns, is dereferenced: the TypeError ends the handler before
\* showMessage('Grid reset', 'success')
ScrResetGrid ==
  /\ scrAlive = "active"
  /\ last' = [op |-> "scr.resetGrid", arg |-> NoResponse, threw |-> gridApi]
  /\ UNCHANGED <<scrLoading, scrReqs, gridApi, snack>>
  /\ ScrButtonUnchanged

\* -------------------------------------------------------- AppComponent bodies

\* field initialiser of AppComponent.authStatus
AppDefaultAuthStatus ==
  [authenticated |-> FALSE, expired |-> FALSE, hasToken |-> FALSE]

\* if (v): a query parameter that is present with a non-empty value
Truthy(v) == v # Absent /\ v # ""

\* (variant) an error callback is logged and the address is left as it is
appHandleOAuthCallback_errorStays(srch, path) ==
  IF Truthy(srch.success)
  THEN [checks |-> 1, search |-> NoCallback, pathname |-> "/data-fetch",
        nav |-> <<"/data-fetch">>]
  ELSE [checks |-> 0, search |-> srch, pathname |-> path, nav |-> <<>>]

\* handleOAuthCallback: checks counts its checkAuthStatus() calls, search and
\* pathname are the address after replaceState, nav its router.navigate calls
appHandleOAuthCallback(srch, path) ==
  IF Truthy(srch.success)
  THEN [checks |-> 1, search |-> NoCallback, pathname |-> "/data-fetch",
        nav |-> <<"/data-fetch">>]
  ELSE IF Truthy(srch.error)
  THEN [checks |-> 0, search |-> NoCallback, pathname |-> "/authentication",
        nav |-> <<"/authentication">>]
  ELSE [checks |-> 0, search |-> srch, pathname |-> path, nav |-> <<>>]

\* checkAuthStatus: the router.navigate of the subscribe's next callback
checkAuthStatusNext(status, url) ==
  IF ~status.authenticated /\ url # "/authentication"
  THEN <<"/authentication">>
  ELSE <<>>

\* navItems: the sidebar entries (requiresData is undefined unless stated)
NavItems ==
  {[route |-> "/authentication", requiresAuth |-> FALSE, requiresData |-> FALSE],
   [route |-> "/data-fetch", requiresAuth |-> TRUE, requiresData |-> FALSE],
   [route |-> "/scraping", requiresAuth |-> TRUE, requiresData |-> FALSE],
   [route |-> "/data-view", requiresAuth |-> TRUE, requiresData |-> TRUE]}

\* isNavItemLocked: every branch after the authentication test returns false
isNavItemLocked(item, status) ==
  IF ~item.requiresAuth THEN FALSE
  ELSE IF item.requiresAuth /\ ~status.authenticated THEN TRUE
  ELSE IF item.requiresData THEN FALSE
  ELSE FALSE

\* (variant) a failed logout leaves the user where they are
logoutError_staysPut(status) ==
  [authStatus |-> status, loading |-> FALSE, nav |-> <<>>]

\* (variant) a logout drops the token flag of the descriptor held
logoutNext_dropsTokenOnly(status) ==
  [authStatus |-> [status EXCEPT !.hasToken = FALSE], loading |-> FALSE,
   nav |-> <<"/authentication">>]

\* logout: the next callback, over the descriptor held
logoutNext(status) ==
  [authStatus |-> AppDefaultAuthStatus, loading |-> FALSE,
   nav |-> <<"/authentication">>]

\* logout: the error callback, over the descriptor held
logoutError(status) ==
  [authStatus |-> status, loading |-> FALSE, nav |-> <<"/authentication">>]

\* calls of logout() and navigations of AppComponent in one run
MaxLogouts == 3

\* ------------------------------------------------------ AppComponent actions

\* the router.navigate calls of a handler of AppComponent (at most one),
\* carried out
RouterNavigate(nav) ==
  IF nav = <<>>
  THEN UNCHANGED notApp
  ELSE /\ RouterCall(nav[1])
       /\ UNCHANGED <<alive, authStatus, cookieStatus, scrapingLoading,
                      mfaRequired, scrapingCreds, polling, statusReqs,
                      authReqs, timers, resumes>>
       /\ UNCHANGED <<clock, scrVars, scrClock, opReqs, oauthLoading, href,
                      revVars>>

\* ngOnInit: checkAuthStatus, handleOAuthCallback. params are the other query
\* parameters of the address the application was opened with; no statement of
\* AppComponent reads them
AppNgOnInit(params) ==
  /\ appAlive = "constructed"
  /\ appAlive' = "active"
  /\ LET cb == appHandleOAuthCallback(search, pathname)
     IN /\ appReqs + 1 + cb.checks <= MaxStatus
        /\ appReqs' = appReqs + 1 + cb.checks
        /\ search' = cb.search
        /\ pathname' = cb.pathname
        /\ appNavs' = appNavs \o cb.nav
        /\ RouterNavigate(cb.nav)
  /\ last' = [op |-> "app.ngOnInit", arg |-> NoResponse, params |-> params,
              search |-> search]
  /\ UNCHANGED <<appAuthStatus, appLoading, appLogoutReqs>>

\* handleOAuthCallback() is invoked again on the address as it is now
AppHandleOAuthCallback ==
  /\ appAlive = "active"
  /\ LET cb == appHandleOAuthCallback(search, pathname)
     IN /\ appReqs + cb.checks <= MaxStatus
        /\ appReqs' = appReqs + cb.checks
        /\ search' = cb.search
        /\ pathname' = cb.pathname
        /\ appNavs' = appNavs \o cb.nav
        /\ RouterNavigate(cb.nav)
  /\ last' = Handler("app.handleOAuthCallback")
  /\ UNCHANGED <<appAlive, appAuthStatus, appLoading, appLogoutReqs>>

\* checkAuthStatus: getAuthStatus next
AppAuthStatusNext(status) ==
  /\ appReqs > 0
  /\ appReqs' = appReqs - 1
  /\ appAuthStatus' = status
  /\ LET nav == checkAuthStatusNext(status, RouterUrl)
     IN /\ appNavs' = appNavs \o nav
        /\ RouterNavigate(nav)
  /\ last' = Handler("app.checkAuthStatus.next")
  /\ UNCHANGED <<appAlive, pathname, search, appLoading, appLogoutReqs>>

\* checkAuthStatus: getAuthStatus error
AppAuthStatusError ==
  /\ appReqs > 0
  /\ appReqs' = appReqs - 1
  /\ appAuthStatus' = AppDefaultAuthStatus
  /\ last' = Handler("app.checkAuthStatus.error")
  /\ UNCHANGED <<appAlive, appNavs, pathname, search, appLoading,
                 appLogoutReqs>>
  /\ UNCHANGED notApp

\* logout(): loading = true and POST /auth/logout is subscribed
AppLogout ==
  /\ appAlive = "active"
  /\ Len(appNavs) + appLogoutReqs < MaxLogouts
  /\ appLoading' = TRUE
  /\ appLogoutReqs' = appLogoutReqs + 1
  /\ last' = Handler("app.logout")
  /\ UNCHANGED <<appAlive, appAuthStatus, appReqs, appNavs, pathname, search>>
  /\ UNCHANGED notApp

\* logout: the subscribe's next callback
AppLogoutNext ==
  /\ appLogoutReqs > 0
  /\ appLogoutReqs' = appLogoutReqs - 1
  /\ LET r == logoutNext(appAuthStatus)
     IN /\ appAuthStatus' = r.authStatus
        /\ appLoading' = r.loading
        /\ appNavs' = appNavs \o r.nav
        /\ RouterNavigate(r.nav)
  /\ last' = Handler("app.logout.next")
  /\ UNCHANGED <<appAlive, appReqs, pathname, search>>

\* logout: the subscribe's error callback
AppLogoutError ==
  /\ appLogoutReqs > 0
  /\ appLogoutReqs' = appLogoutReqs - 1
  /\ LET r == logoutError(appAuthStatus)
     IN /\ appAuthStatus' = r.authStatus
        /\ appLoading' = r.loading
        /\ appNavs' = appNavs \o r.nav
        /\ RouterNavigate(r.nav)
  /\ last' = Handler("app.logout.error")
  /\ UNCHANGED <<appAlive, appReqs, pathname, search>>

\* ngOnDestroy: destroy$ ends every takeUntil(destroy$) of AppComponent, the
\* status requests and the logout requests; no callback of theirs runs any
\* more, so loading keeps the value it has
AppNgOnDestroy ==
  /\ appAlive = "active"
  /\ appAlive' = "destroyed"
  /\ appReqs' = 0
  /\ appLogoutReqs' = 0
  /\ last' = [op |-> "app.ngOnDestroy", arg |-> NoResponse,
              dropped |-> appReqs + appLogoutReqs]
  /\ UNCHANGED <<appAuthStatus, appNavs, pathname, search, appLoading>>
  /\ UNCHANGED notApp

\* ---------------------------------------------------- CookieService bodies

\* values the Remote API can return as the cookie string of a login
Tokens == {"", "tok-a", "tok-b"}

\* what localStorage.getItem('airtable_cookies') can return: null or a string
StoredItems == Tokens \cup {Absent}

\* (variant) the constructor publishes whatever the storage returned
cookieServiceConstructor_trustsEmpty(item) == item

\* constructor: if (stored) this.cookiesSubject.next(stored)
cookieServiceConstructor(item) == IF Truthy(item) THEN item ELSE Absent

\* answers of POST /cookies/retrieve
RetrieveResponses == [success : BOOLEAN, cookies : Tokens]

\* (variant) the tap stores the cookie string of every 2xx answer
retrieveCookiesTap_storesAlways(response) ==
  [cookies |-> response.cookies, stored |-> response.cookies]

\* retrieveCookies: the tap on the response
retrieveCookiesTap(response) ==
  IF response.success
  THEN [cookies |-> response.cookies, stored |-> response.cookies]
  ELSE [cookies |-> cookies, stored |-> stored]

\* getCurrentCookies
getCurrentCookies == cookies

\* (variant) clearCookies forgets the token and keeps the localStorage item
clearCookies_keepsItem == [cookies |-> Absent, stored |-> stored]

\* clearCookies
clearCookies == [cookies |-> Absent, stored |-> Absent]

\* ------------------------------------------- RevisionHistoryComponent bodies

\* this.fb.group({email: '', password: '', mfaCode: ''})
InitialForm == [email |-> "", password |-> ""]

\* authForm.reset(): every control is null
ResetForm == [email |-> Absent, password |-> Absent]

\* forms the user can have typed
TypedForms ==
  {[email |-> "not-an-email", password |-> "secret"],
   [email |-> "user@example.com", password |-> ""],
   [email |-> "user@example.com", password |-> "secret"]}

\* Validators.email, on the addresses tried
IsEmail(e) == e = "user@example.com"

\* authForm.invalid: email required and an address, password required
authFormInvalid(form) ==
  ~(Truthy(form.email) /\ IsEmail(form.email) /\ Truthy(form.password))

\* error.error?.message of a failed POST /cookies/retrieve
RetrieveErrors == {Absent, "MFA code required", "Invalid credentials"}

\* error.error?.message?.includes('MFA'), on the messages tried
IncludesMFA(message) == message = "MFA code required"

NoRevReqs == [validate |-> 0, retrieve |-> 0, fetch |-> 0]

\* most requests of one kind RevisionHistoryComponent has under way
MaxRevReqs == 1

\* snackBar.open(message, 'Close', {panelClass: [type-snackbar]})
showSuccess(message) == Message(<<message>>, "success")

showError(message) == Message(<<message>>, "error")

\* (variant) a failed validation request leaves the token alone
validateExistingCookiesError_keepsToken ==
  [cookies |-> cookies, stored |-> stored]

\* validateExistingCookies: the error callback
validateExistingCookiesError == clearCookies

\* (variant) every answer of the validation request authenticates
validateExistingCookiesNext_trustsAnswer(response) ==
  [isAuthenticated |-> TRUE,
   token |-> [cookies |-> cookies, stored |-> stored],
   snack |-> showSuccess("Existing cookies are valid")]

\* validateExistingCookies: the next callback
validateExistingCookiesNext(response) ==
  IF response.valid
  THEN [isAuthenticated |-> TRUE,
        token |-> [cookies |-> cookies, stored |-> stored],
        snack |-> showSuccess("Existing cookies are valid")]
  ELSE [isAuthenticated |-> isAuthenticated,
        token |-> clearCookies,
        snack |-> showError(
                    "Stored cookies are invalid. Please re-authenticate.")]

\* ------------------------------------------ RevisionHistoryComponent actions

RevHandler(op, arg) == [op |-> op, arg |-> arg]

\* the page is loaded anew: a new CookieService reads localStorage and a new
\* RevisionHistoryComponent is constructed; the requests of the old page are
\* gone with it
Reload ==
  /\ revAlive = "active"
  /\ cookies' = cookieServiceConstructor(stored)
  /\ revAlive' = "constructed"
  /\ isAuthenticated' = FALSE
  /\ isLoading' = FALSE
  /\ showMfaInput' = FALSE
  /\ authForm' = InitialForm
  /\ revReqs' = NoRevReqs
  /\ revSnack' = NoMessage
  /\ last' = RevHandler("rev.constructor", NoResponse)
  /\ UNCHANGED stored
  /\ UNCHANGED notRev

\* ngOnInit: a token that is present is sent to be validated
RevNgOnInit ==
  /\ revAlive = "constructed"
  /\ revAlive' = "active"
  /\ revReqs' = IF Truthy(getCurrentCookies)
                THEN [revReqs EXCEPT !.validate = @ + 1]
                ELSE revReqs
  /\ last' = RevHandler("rev.ngOnInit", NoResponse)
  /\ UNCHANGED <<cookies, stored, isAuthenticated, isLoading, showMfaInput,
                 authForm, revSnack>>
  /\ UNCHANGED notRev

\* validateExistingCookies: next
RevValidateNext(response) ==
  /\ revReqs.validate > 0
  /\ LET r == validateExistingCookiesNext(response)
     IN  /\ isAuthenticated' = r.isAuthenticated
         /\ cookies' = r.token.cookies
         /\ stored' = r.token.stored
         /\ revSnack' = r.snack
  /\ revReqs' = [revReqs EXCEPT !.validate = @ - 1]
  /\ last' = RevHandler("rev.validate.next", response)
  /\ UNCHANGED <<revAlive, isLoading, showMfaInput, authForm>>
  /\ UNCHANGED notRev

\* validateExistingCookies: error
RevValidateError ==
  /\ revReqs.validate > 0
  /\ cookies' = validateExistingCookiesError.cookies
  /\ stored' = validateExistingCookiesError.stored
  /\ revReqs' = [revReqs EXCEPT !.validate = @ - 1]
  /\ last' = RevHandler("rev.validate.error", NoResponse)
  /\ UNCHANGED <<revAlive, isAuthenticated, isLoading, showMfaInput, authForm,
                 revSnack>>
  /\ UNCHANGED notRev

\* the user types into the login form
RevEditForm(form) ==
  /\ revAlive = "active"
  /\ authForm # form
  /\ authForm' = form
  /\ last' = RevHandler("rev.edit", NoResponse)
  /\ UNCHANGED <<cookies, stored, revAlive, isAuthenticated, isLoading,
                 showMfaInput, revReqs, revSnack>>
  /\ UNCHANGED notRev

\* authenticate
RevAuthenticate ==
  /\ revAlive = "active"
  /\ IF authFormInvalid(authForm)
     THEN UNCHANGED <<isLoading, revReqs>>
     ELSE /\ revReqs.retrieve < MaxRevReqs
          /\ isLoading' = TRUE
          /\ revReqs' = [revReqs EXCEPT !.retrieve = @ + 1]
  /\ last' = RevHandler("rev.authenticate", authForm)
  /\ UNCHANGED <<cookies, stored, revAlive, isAuthenticated, showMfaInput,
                 authForm, revSnack>>
  /\ UNCHANGED notRev

\* authenticate: the tap of retrieveCookies, then the next callback
RevRetrieveNext(response) ==
  /\ revReqs.retrieve > 0
  /\ cookies' = retrieveCookiesTap(response).cookies
  /\ stored' = retrieveCookiesTap(response).stored
  /\ isAuthenticated' = TRUE
  /\ isLoading' = FALSE
  /\ revSnack' = showSuccess("Authentication successful!")
  /\ authForm' = ResetForm
  /\ revReqs' = [revReqs EXCEPT !.retrieve = @ - 1]
  /\ last' = RevHandler("rev.retrieve.next", response)
  /\ UNCHANGED <<revAlive, showMfaInput>>
  /\ UNCHANGED notRev

\* authenticate: error
RevRetrieveError(message) ==
  /\ revReqs.retrieve > 0
  /\ isLoading' = FALSE
  /\ IF IncludesMFA(message)
     THEN /\ showMfaInput' = TRUE
          /\ revSnack' =
               showError("MFA code required. Please enter your MFA code.")
     ELSE /\ revSnack' =
               showError("Authentication failed. Please check your credentials.")
          /\ UNCHANGED showMfaInput
  /\ revReqs' = [revReqs EXCEPT !.retrieve = @ - 1]
  /\ last' = RevHandler("rev.retrieve.error", [message |-> message])
  /\ UNCHANGED <<cookies, stored, revAlive, isAuthenticated, authForm>>
  /\ UNCHANGED notRev

\* fetchRevisionHistory, with the validity of scrapeForm as the user left it
RevFetch(formValid) ==
  /\ revAlive = "active"
  /\ IF ~formValid
     THEN UNCHANGED <<isLoading, revReqs, revSnack>>
     ELSE IF ~Truthy(getCurrentCookies)
     THEN /\ revSnack' = showError("Please authenticate first")
          /\ UNCHANGED <<isLoading, revReqs>>
     ELSE /\ revReqs.fetch < MaxRevReqs
          /\ isLoading' = TRUE
          /\ revReqs' = [revReqs EXCEPT !.fetch = @ + 1]
          /\ UNCHANGED revSnack
  /\ last' = RevHandler("rev.fetch", [valid |-> formValid])
  /\ UNCHANGED <<cookies, stored, revAlive, isAuthenticated, showMfaInput,
                 authForm>>
  /\ UNCHANGED notRev

\* `Fetched ${response.count} revision history records`: an answer without a
\* count is interpolated as undefined
fetchRevisionHistoryNext(response) ==
  "Fetched "
    \o (IF "count" \in DOMAIN response THEN ToString(response.count)
        ELSE "undefined")
    \o " revision history records"

\* fetchRevisionHistory: next
RevFetchNext(response) ==
  /\ revReqs.fetch > 0
  /\ isLoading' = FALSE
  /\ revSnack' = showSuccess(fetchRevisionHistoryNext(response))
  /\ revReqs' = [revReqs EXCEPT !.fetch = @ - 1]
  /\ last' = RevHandler("rev.fetch.next", response)
  /\ UNCHANGED <<cookies, stored, revAlive, isAuthenticated, showMfaInput,
                 authForm>>
  /\ UNCHANGED notRev

\* fetchRevisionHistory: error
RevFetchError(requiresReauth) ==
  /\ revReqs.fetch > 0
  /\ isLoading' = FALSE
  /\ IF requiresReauth
     THEN /\ isAuthenticated' = FALSE
          /\ cookies' = clearCookies.cookies
          /\ stored' = clearCookies.stored
          /\ revSnack' = showError("Cookies expired. Please re-authenticate.")
     ELSE /\ revSnack' = showError("Failed to fetch revision history")
          /\ UNCHANGED <<isAuthenticated, cookies, stored>>
  /\ revReqs' = [revReqs EXCEPT !.fetch = @ - 1]
  /\ last' = RevHandler("rev.fetch.error", [requiresReauth |-> requiresReauth])
  /\ UNCHANGED <<revAlive, showMfaInput, authForm>>
  /\ UNCHANGED notRev

\* logout
RevLogout ==
  /\ revAlive = "active"
  /\ cookies' = clearCookies.cookies
  /\ stored' = clearCookies.stored
  /\ isAuthenticated' = FALSE
  /\ revSnack' = showSuccess("Logged out successfully")
  /\ last' = RevHandler("rev.logout", NoResponse)
  /\ UNCHANGED <<revAlive, isLoading, showMfaInput, authForm, revReqs>>
  /\ UNCHANGED notRev

\* -------------------------------------------------------------------- time

\* one second passes: no interval is past its tick
Advance ==
  /\ polling \/ scrPolling
  /\ polling => clock < PollInterval
  /\ scrPolling => scrClock < PollInterval
  /\ clock' = IF polling THEN clock + 1 ELSE clock
  /\ scrClock' = IF scrPolling THEN scrClock + 1 ELSE scrClock
  /\ last' = Handler("time")
  /\ UNCHANGED <<alive, authStatus, cookieStatus, scrapingLoading, mfaRequired,
                 scrapingCreds, returnUrl, requiresScraping, polling,
                 statusReqs, authReqs, timers, resumes, snack, search>>
  /\ UNCHANGED <<guardVars, scrVars, appVars, opReqs, oauthLoading, href, revVars>>

\* the interval of the authentication page has reached its next tick
Due == clock = PollInterval

\* the interval of the scraping screen has reached its next tick
ScrDue == scrClock = PollInterval

\* ------------------------------- AuthenticationComponent, the OAuth buttons

PageOAuthUnchanged ==
  UNCHANGED <<alive, authStatus, cookieStatus, scrapingLoading, mfaRequired,
              scrapingCreds, returnUrl, requiresScraping, polling, authReqs,
              timers, resumes, search, href>>

\* refreshToken(), up to the subscribe
RefreshToken ==
  /\ alive = "active"
  /\ opReqs.refresh < MaxOpReqs
  /\ oauthLoading' = TRUE
  /\ opReqs' = [opReqs EXCEPT !.refresh = @ + 1]
  /\ last' = Handler("refreshToken")
  /\ PageOAuthUnchanged
  /\ UNCHANGED <<statusReqs, snack>>
  /\ UNCHANGED <<guardVars, clock, scrVars, scrClock, appVars, revVars>>

\* refreshToken: next
RefreshTokenNext ==
  /\ opReqs.refresh > 0
  /\ CanLoadStatus(1)
  /\ snack' = Message(<<"Token refreshed successfully">>, "success")
  /\ statusReqs' = loadStatus(statusReqs, 1)
  /\ oauthLoading' = FALSE
  /\ opReqs' = [opReqs EXCEPT !.refresh = @ - 1]
  /\ last' = Handler("refreshToken.next")
  /\ PageOAuthUnchanged
  /\ UNCHANGED <<guardVars, clock, scrVars, scrClock, appVars, revVars>>

\* refreshToken: error
RefreshTokenError ==
  /\ opReqs.refresh > 0
  /\ snack' = Message(<<"Failed to refresh token. Please re-authenticate.">>,
                      "error")
  /\ oauthLoading' = FALSE
  /\ opReqs' = [opReqs EXCEPT !.refresh = @ - 1]
  /\ last' = Handler("refreshToken.error")
  /\ PageOAuthUnchanged
  /\ UNCHANGED statusReqs
  /\ UNCHANGED <<guardVars, clock, scrVars, scrClock, appVars, revVars>>

\* initiateOAuth(), up to the subscribe
InitiateOAuth ==
  /\ alive = "active"
  /\ opReqs.authUrl < MaxOpReqs
  /\ oauthLoading' = TRUE
  /\ opReqs' = [opReqs EXCEPT !.authUrl = @ + 1]
  /\ last' = Handler("initiateOAuth")
  /\ PageOAuthUnchanged
  /\ UNCHANGED <<statusReqs, snack>>
  /\ UNCHANGED <<guardVars, clock, scrVars, scrClock, appVars, revVars>>

\* the answers of GET /auth/authorize tried: one with the address and one
\* without it
AuthUrlResponses ==
  {[authUrl |-> "https://airtable.com/oauth2/v1/authorize"],
   [success |-> FALSE]}

\* initiateOAuth, next: window.location.href = response.authUrl, and nothing
\* else: oauthLoading stays true, the component is not destroyed, and what is
\* pending stays pending until the browser has left the document
InitiateOAuthNext(response) ==
  /\ opReqs.authUrl > 0
  /\ href' = IF "authUrl" \in DOMAIN response THEN response.authUrl
             ELSE "undefined"
  /\ opReqs' = [opReqs EXCEPT !.authUrl = @ - 1]
  /\ last' = [op |-> "initiateOAuth.next", arg |-> response]
  /\ UNCHANGED <<alive, authStatus, cookieStatus, scrapingLoading, mfaRequired,
                 scrapingCreds, returnUrl, requiresScraping, polling,
                 statusReqs, authReqs, timers, resumes, snack, search,
                 oauthLoading>>
  /\ UNCHANGED <<guardVars, clock, scrVars, scrClock, appVars, revVars>>

\* initiateOAuth: error
InitiateOAuthError ==
  /\ opReqs.authUrl > 0
  /\ snack' = Message(<<"Failed to initiate OAuth">>, "error")
  /\ oauthLoading' = FALSE
  /\ opReqs' = [opReqs EXCEPT !.authUrl = @ - 1]
  /\ last' = Handler("initiateOAuth.error")
  /\ PageOAuthUnchanged
  /\ UNCHANGED statusReqs
  /\ UNCHANGED <<guardVars, clock, scrVars, scrClock, appVars, revVars>>

\* ------------------------------------------------------------ specification

\* no guard has run and the router shows the route url
GuardInitAt(url) ==
  /\ gGuard = "none"
  /\ gUrl = "/authentication"
  /\ gPc = "idle"
  /\ gResult = "none"
  /\ gAuth = NoResponse
  /\ gCookie = NoResponse
  /\ gInner = "none"
  /\ gReqs = {}
  /\ gFailed = FALSE
  /\ gOld = <<>>
  /\ redirects = <<>>
  /\ routerUrl = url
  /\ routerQuery = NoQuery

GuardInit == GuardInitAt("/authentication")

\* the visit was opened on a route that carries canActivate: [authGuard]:
\* the guard asked getAuthStatus, was answered status and returned true, so
\* the router shows url
GuardAllowedAt(url, status) ==
  /\ gGuard = canActivate(url)
  /\ gGuard = "authGuard"
  /\ gUrl = url
  /\ gPc = "returned"
  /\ gResult = authGuardMap(status, url).result
  /\ gResult = "Allow"
  /\ gAuth = status
  /\ gCookie = NoResponse
  /\ gInner = "none"
  /\ gReqs = {"authStatus"}
  /\ gFailed = FALSE
  /\ gOld = <<>>
  /\ redirects = authGuardMap(status, url).nav
  /\ routerUrl = url
  /\ routerQuery = NoQuery

\* the router shows url and the guard of its route, if it has one, let the
\* visit in: the component of the route may be created
Routed(url) ==
  /\ routerUrl = url
  /\ (canActivate(url) # "none") =>
        (gGuard = canActivate(url) /\ gUrl = url /\ gPc = "returned"
           /\ gResult = "Allow")

PageInit ==
  /\ alive = "constructed"
  /\ authStatus = DefaultAuthStatus
  /\ cookieStatus = DefaultCookieStatus
  /\ scrapingLoading = FALSE
  /\ mfaRequired = FALSE
  /\ scrapingCreds = EmptyCreds
  /\ returnUrl = "/data-fetch"
  /\ requiresScraping = FALSE
  /\ polling = FALSE
  /\ statusReqs = [auth |-> 0, cookie |-> 0]
  /\ authReqs = <<>>
  /\ timers = 0
  /\ resumes = <<>>
  /\ snack = NoMessage
  /\ search \in SearchValues
  /\ last = Handler("constructor")
  /\ clock = 0

ScrInit ==
  /\ scrAlive = "constructed"
  /\ scrCookieStatus = ScrDefaultCookieStatus
  /\ scrRevisionStats = "zero"
  /\ scrLoading = FALSE
  /\ scrFetching = FALSE
  /\ scrPolling = FALSE
  /\ scrReqs = NoScrReqs
  /\ scrLate = NoScrReqs
  /\ scrTimers = 0
  /\ scrClock = 0
  /\ gridApi = FALSE

\* AppComponent constructed in a document opened on the path url
AppInitAt(url) ==
  /\ appAlive = "constructed"
  /\ appAuthStatus = AppDefaultAuthStatus
  /\ appReqs = 0
  /\ appNavs = <<>>
  /\ pathname = url
  /\ appLoading = FALSE
  /\ appLogoutReqs = 0

AppInit == AppInitAt("/authentication")

\* CookieService constructed over the localStorage item, and
\* RevisionHistoryComponent with its field initialisers
RevInitAt(item) ==
  /\ stored = item
  /\ cookies = cookieServiceConstructor(item)
  /\ revAlive = "constructed"
  /\ isAuthenticated = FALSE
  /\ isLoading = FALSE
  /\ showMfaInput = FALSE
  /\ authForm = InitialForm
  /\ revReqs = NoRevReqs
  /\ revSnack = NoMessage

\* a first visit: nothing is stored
RevInit == RevInitAt(Absent)

Init ==
  GuardInit /\ PageInit /\ ScrInit /\ AppInit /\ opReqs = NoOpReqs /\ oauthLoading = FALSE /\ href = Absent /\ RevInit

GuardNext ==
  \/ \E path \in Paths : Navigation(path)
  \/ \E g \in {"scrapingGuard", "combinedGuard"}, url \in ProtectedUrls :
       Activate(g, url)
  \/ \E status \in AuthDescs : GuardAuthStatusNext(status)
  \/ GuardAuthStatusError
  \/ \E status \in CookieDescs : GuardCookieStatusNext(status)
  \/ GuardCookieStatusError
  \/ \E status \in CookieDescs : InnerCookieStatusNext(status)
  \/ InnerCookieStatusError
  \/ \E i \in 1..MaxSuperseded, status \in AuthDescs :
       OldAuthStatusNext(i, status)
  \/ \E i \in 1..MaxSuperseded, status \in CookieDescs :
       OldCookieStatusNext(i, status)
  \/ \E i \in 1..MaxSuperseded : OldStatusError(i)
  \/ \E i \in 1..MaxSuperseded, status \in CookieDescs :
       OldInnerCookieStatusNext(i, status)
  \/ \E i \in 1..MaxSuperseded : OldInnerCookieStatusError(i)

SpecGuard == Init /\ [][GuardNext]_vars

\* the authentication page opened without an OAuth callback in the address
MfaInit == Init /\ search = NoCallback

\* the status answers tried while the credential form is exercised
MfaAuthAnswers ==
  {[authenticated |-> TRUE, expired |-> FALSE, hasToken |-> TRUE,
    expiresAt |-> "2030-01-01"]}

MfaCookieAnswers == {[hasCookies |-> TRUE, valid |-> TRUE]}

\* the part of the state space the credential form is exercised in
MfaCap ==
  /\ statusReqs.auth <= MfaMaxStatus
  /\ statusReqs.cookie <= MfaMaxStatus
  /\ timers + Len(resumes) <= MfaMaxTimers

MfaNext ==
  \/ \E params \in QueryParams : NgOnInit(params) /\ MfaCap'
  \/ NgOnDestroy
  \/ PollTick /\ MfaCap'
  \/ \E status \in MfaAuthAnswers : StatusAuthNext(status)
  \/ StatusAuthError
  \/ \E status \in MfaCookieAnswers : StatusCookieNext(status)
  \/ StatusCookieError
  \/ \E creds \in Creds : EditCreds(creds)
  \/ AuthenticateScraping
  \/ \E i \in 1..MaxInflight, response \in AuthResponses :
       AuthenticateNext(i, response) /\ MfaCap'
  \/ \E i \in 1..MaxInflight, err \in AuthErrors :
       AuthenticateError(i, err) /\ MfaCap'
  \/ TimerFire

SpecMfa == MfaInit /\ [][MfaNext]_vars

\* the status answers tried while the pollers run
PollAuthAnswers ==
  {[authenticated |-> TRUE, expired |-> FALSE, hasToken |-> TRUE,
    expiresAt |-> "2030-01-01"],
   [authenticated |-> TRUE, expired |-> TRUE, hasToken |-> TRUE,
    expiresAt |-> "2030-01-01"]}

\* a visit that opens on the authentication page, whose route has no guard,
\* or on the scraping screen, whose route has let it in after authGuard was
\* answered; no OAuth callback is in the address
PollInit ==
  /\ \/ GuardInitAt("/authentication") /\ AppInitAt("/authentication")
     \/ /\ \E status \in PollAuthAnswers :
             GuardAllowedAt("/scraping", status)
        /\ AppInitAt("/scraping")
  /\ PageInit
  /\ ScrInit
  /\ opReqs = NoOpReqs /\ oauthLoading = FALSE /\ href = Absent
  /\ RevInit
  /\ search = NoCallback

PollCookieAnswers ==
  {[hasCookies |-> TRUE, valid |-> TRUE], [hasCookies |-> TRUE, valid |-> FALSE]}

\* the two pollers with the clock: a tick fires when its interval is due
PollNext ==
  \/ \E params \in QueryParams : Routed("/authentication") /\ NgOnInit(params)
  \/ NgOnDestroy
  \/ Due /\ PollTick
  \/ \E status \in PollAuthAnswers : StatusAuthNext(status)
  \/ StatusAuthError
  \/ \E status \in PollCookieAnswers : StatusCookieNext(status)
  \/ StatusCookieError
  \/ Routed("/scraping") /\ ScrNgOnInit
  \/ ScrNgOnDestroy
  \/ ScrDue /\ ScrPollTick
  \/ \E status \in PollCookieAnswers : ScrCookieNext(status, FALSE)
  \/ ScrCookieError(FALSE)
  \/ ScrRevisionsNext(FALSE)
  \/ ScrRevisionsError(FALSE)
  \/ Advance

SpecPoll == PollInit /\ [][PollNext]_vars

\* the two screens until and after they are destroyed, without the clock, with
\* the buttons of the scraping screen and the OAuth buttons of the page
StopNext ==
  \/ \E params \in QueryParams : Routed("/authentication") /\ NgOnInit(params)
  \/ NgOnDestroy
  \/ PollTick
  \/ \E status \in PollAuthAnswers : StatusAuthNext(status)
  \/ StatusAuthError
  \/ \E status \in PollCookieAnswers : StatusCookieNext(status)
  \/ StatusCookieError
  \/ Routed("/scraping") /\ ScrNgOnInit
  \/ ScrNgOnDestroy
  \/ ScrPollTick
  \/ ScrRefreshStats
  \/ ScrValidateCookies
  \/ \E valid \in BOOLEAN : ScrValidateNext([valid |-> valid])
  \/ ScrValidateError
  \/ ScrOnGridReady
  \/ \E message \in GridMessages : ScrGridAction(message)
  \/ ScrResetGrid
  \/ \E status \in PollCookieAnswers, late \in BOOLEAN :
       ScrCookieNext(status, late)
  \/ \E late \in BOOLEAN : ScrCookieError(late)
  \/ \E late \in BOOLEAN : ScrRevisionsNext(late)
  \/ \E late \in BOOLEAN : ScrRevisionsError(late)
  \/ ScrFetchAllRevisions
  \/ \E message \in {Absent, "server text"} : ScrFetchNext(message)
  \/ \E message \in {Absent, "server text"} : ScrFetchError(message)
  \/ ScrTimerFire
  \/ RefreshToken
  \/ RefreshTokenNext
  \/ RefreshTokenError
  \/ InitiateOAuth
  \/ \E response \in AuthUrlResponses : InitiateOAuthNext(response)
  \/ InitiateOAuthError

SpecStop == PollInit /\ [][StopNext]_vars

\* the getAuthStatus answers tried while a callback is handled
CallbackAuthAnswers ==
  PollAuthAnswers \cup
    {[authenticated |-> FALSE, expired |-> FALSE, hasToken |-> FALSE,
      expiresAt |-> Absent]}

\* the routed page may be created: AppComponent has been initialised and no
\* guard check of the router is unanswered
PageShown ==
  /\ appAlive = "active"
  /\ CheckSettled

\* the application is opened on an address that may carry an OAuth callback:
\* AppComponent is initialised first, the routed page after it. The page reads
\* the query of the address the application was opened with, or the query the
\* router holds once a navigation was asked for. authGuard answers the
\* navigations the callbacks start.
CallbackNext ==
  \/ \E params \in QueryParams : AppNgOnInit(params)
  \/ AppHandleOAuthCallback
  \/ \E status \in CallbackAuthAnswers : AppAuthStatusNext(status)
  \/ AppAuthStatusError
  \/ AppNgOnDestroy
  \/ \E status \in CallbackAuthAnswers : GuardAuthStatusNext(status)
  \/ GuardAuthStatusError
  \/ \E params \in QueryParams :
       /\ PageShown
       /\ (appNavs # <<>> \/ gPc # "idle") => params = routerQuery
       /\ NgOnInit(params)
  \/ HandleOAuthCallback
  \/ NgOnDestroy
  \/ \E status \in PollAuthAnswers : StatusAuthNext(status)
  \/ StatusAuthError
  \/ \E status \in PollCookieAnswers : StatusCookieNext(status)
  \/ StatusCookieError

SpecCallback == Init /\ [][CallbackNext]_vars

\* the shell with the router: the application is opened on the authentication
\* page, the user asks for routes, authGuard answers, the authentication page
\* is shown with the query the router holds, and AppComponent checks the
\* status and logs out. The user asks for a route before the page is shown.
\* The getCookieStatus request of the page stays unanswered here: its callbacks
\* write cookieStatus and nothing else (SpecCallback and SpecPoll run them).
ShellNext ==
  \/ AppNgOnInit(NoQuery)
  \/ \E path \in Paths :
       /\ appAlive = "active" /\ alive = "constructed"
       /\ Navigation(path)
  \/ \E status \in CallbackAuthAnswers : GuardAuthStatusNext(status)
  \/ GuardAuthStatusError
  \/ \E i \in 1..MaxSuperseded, status \in CallbackAuthAnswers :
       OldAuthStatusNext(i, status)
  \/ \E i \in 1..MaxSuperseded : OldStatusError(i)
  \/ /\ appAlive = "active" /\ CheckSettled
     /\ NgOnInit(routerQuery)
  \/ NgOnDestroy
  \/ \E status \in CallbackAuthAnswers : StatusAuthNext(status)
  \/ StatusAuthError
  \/ \E status \in CallbackAuthAnswers : AppAuthStatusNext(status)
  \/ AppAuthStatusError
  \/ AppLogout
  \/ AppLogoutNext
  \/ AppLogoutError
  \/ AppNgOnDestroy

SpecShell == MfaInit /\ [][ShellNext]_vars

\* the descriptors of the Remote API in which authenticated comes with a token
\* and valid comes with cookies
CoherentAuth(d) == d.authenticated => d.hasToken
CoherentCookie(d) == d.valid => d.hasCookies
CoherentAuthDescs == {d \in AuthDescs : CoherentAuth(d)}
CoherentCookieDescs == {d \in CookieDescs : CoherentCookie(d)}

\* every holder of a descriptor, fed by such a Remote API. The application
\* is opened on the revision screen, whose route has let the visit in after
\* authGuard was answered; AppComponent's check or logout takes the router to
\* the authentication page, which is created once the screen has been
\* destroyed
DescriptorInit ==
  /\ \E status \in PollAuthAnswers : GuardAllowedAt("/scraping", status)
  /\ PageInit /\ ScrInit /\ AppInitAt("/scraping")
  /\ opReqs = NoOpReqs /\ oauthLoading = FALSE /\ href = Absent /\ RevInit
  /\ search = NoCallback

DescriptorNext ==
  \/ AppNgOnInit(NoQuery)
  \/ /\ appAlive = "active" /\ Routed("/scraping")
     /\ ScrNgOnInit
  \/ ScrNgOnDestroy
  \/ \E status \in CoherentCookieDescs : ScrCookieNext(status, FALSE)
  \/ ScrCookieError(FALSE)
  \/ \E status \in CoherentAuthDescs : AppAuthStatusNext(status)
  \/ AppAuthStatusError
  \/ AppLogout
  \/ AppLogoutNext
  \/ AppLogoutError
  \/ AppNgOnDestroy
  \/ /\ appAlive = "active" /\ scrAlive # "active"
     /\ Routed("/authentication")
     /\ NgOnInit(routerQuery)
  \/ NgOnDestroy
  \/ \E status \in CoherentAuthDescs : StatusAuthNext(status)
  \/ StatusAuthError
  \/ \E status \in CoherentCookieDescs : StatusCookieNext(status)
  \/ StatusCookieError

SpecDescriptor == DescriptorInit /\ [][DescriptorNext]_vars

\* one visit to the authentication page with its credential form and its
\* redirect timers
ResumeNext ==
  \/ \E params \in QueryParams : NgOnInit(params)
  \/ NgOnDestroy
  \/ \E status \in MfaAuthAnswers : StatusAuthNext(status)
  \/ \E status \in MfaCookieAnswers : StatusCookieNext(status)
  \/ \E creds \in Creds : EditCreds(creds)
  \/ AuthenticateScraping
  \/ \E i \in 1..MaxInflight, response \in AuthResponses :
       AuthenticateNext(i, response)
  \/ \E i \in 1..MaxInflight, err \in AuthErrors : AuthenticateError(i, err)
  \/ TimerFire

SpecResume == MfaInit /\ [][ResumeNext]_vars

\* the answers of getCookieStatus tried around the cookie buttons
ClearCookieAnswers ==
  {[hasCookies |-> TRUE, valid |-> TRUE], [hasCookies |-> FALSE, valid |-> FALSE]}

\* the authentication page with its credential form and its cookie buttons
ClearNext ==
  \/ NgOnInit(NoQuery) /\ MfaCap'
  \/ NgOnDestroy
  \/ \E status \in MfaAuthAnswers : StatusAuthNext(status)
  \/ \E status \in ClearCookieAnswers : StatusCookieNext(status)
  \/ StatusCookieError
  \/ \E creds \in Creds : EditCreds(creds)
  \/ AuthenticateScraping
  \/ \E i \in 1..MaxInflight, response \in AuthResponses :
       AuthenticateNext(i, response) /\ MfaCap'
  \/ \E i \in 1..MaxInflight, err \in AuthErrors :
       AuthenticateError(i, err) /\ MfaCap'
  \/ ValidateCookies
  \/ \E valid \in BOOLEAN : ValidateCookiesNext([valid |-> valid]) /\ MfaCap'
  \/ ValidateCookiesError
  \/ ClearCookies
  \/ ClearCookiesNext /\ MfaCap'
  \/ ClearCookiesError

SpecClear == MfaInit /\ [][ClearNext]_vars

\* CookieService and RevisionHistoryComponent, over every stored item
CookieInit ==
  /\ GuardInit /\ PageInit /\ ScrInit /\ AppInit
  /\ opReqs = NoOpReqs /\ oauthLoading = FALSE /\ href = Absent
  /\ search = NoCallback
  /\ \E item \in StoredItems : RevInitAt(item)

\* the answers of fetchRevisionHistory tried: no record, some records, and an
\* answer that carries no count
FetchResponses == {[count |-> 0], [count |-> 3], [success |-> TRUE]}

CookieNext ==
  \/ Reload
  \/ RevNgOnInit
  \/ \E valid \in BOOLEAN : RevValidateNext([valid |-> valid])
  \/ RevValidateError
  \/ \E form \in TypedForms : RevEditForm(form)
  \/ RevAuthenticate
  \/ \E response \in RetrieveResponses : RevRetrieveNext(response)
  \/ \E message \in RetrieveErrors : RevRetrieveError(message)
  \/ \E formValid \in BOOLEAN : RevFetch(formValid)
  \/ \E response \in FetchResponses : RevFetchNext(response)
  \/ \E requiresReauth \in BOOLEAN : RevFetchError(requiresReauth)
  \/ RevLogout

SpecCookie == CookieInit /\ [][CookieNext]_vars

\* ------------------------------------------------------------ admission claims

OAuthValid(d) == d # NoResponse /\ d.authenticated /\ ~d.expired
OAuthInvalid(d) == d # NoResponse /\ (~d.authenticated \/ d.expired)
ScrapingValid(d) == d # NoResponse /\ d.hasCookies /\ d.valid
ScrapingInvalid(d) == d # NoResponse /\ (~d.hasCookies \/ ~d.valid)

\* C1: whenever authGuard has received an OAuth descriptor that is
\* unauthenticated or expired, it has emitted Deny, its one redirect goes to
\* /authentication and carries returnUrl equal to the requested route.
C1_AuthGuardDenies ==
  (gGuard = "authGuard" /\ gPc = "returned" /\ OAuthInvalid(gAuth)) =>
    /\ gResult = "Deny"
    /\ Len(redirects) = 1
    /\ redirects[1].target = "/authentication"
    /\ redirects[1].returnUrl = gUrl
    /\ routerUrl = "/authentication"

C1_Witness ==
  /\ gGuard = "authGuard" /\ gPc = "returned" /\ OAuthInvalid(gAuth)
  /\ gAuth.authenticated /\ gAuth.expired
  /\ gUrl = "/data-view" /\ gResult = "Deny"

\* C2: whenever authGuard has received an OAuth descriptor with
\* authenticated=true and expired=false, it has emitted Allow and made no
\* redirect, whatever hasToken and expiresAt are.
\* The router shows the requested route at the step the check returns; a
\* later redirect can only come from an earlier check that was still unanswered.
C2_AuthGuardAllows ==
  /\ []((gGuard = "authGuard" /\ gPc = "returned" /\ OAuthValid(gAuth)) =>
         /\ gResult = "Allow"
         /\ redirects = <<>>
         /\ gReqs = {"authStatus"})
  /\ [][(gGuard = "authGuard" /\ gPc = "authPending" /\ gPc' = "returned"
          /\ OAuthValid(gAuth')) =>
           (routerUrl' = gUrl /\ routerQuery' = NoQuery)]_vars

C2_Witness ==
  /\ gGuard = "authGuard" /\ gPc = "returned" /\ OAuthValid(gAuth)
  /\ ~gAuth.hasToken /\ gAuth.expiresAt = Absent
  /\ gResult = "Allow" /\ routerUrl = "/scraping"

\* C3 (as claimed): once combinedGuard has returned on a valid OAuth
\* descriptor, an Allow means the scraping descriptor was received and is
\* valid, and an invalid scraping descriptor means the decision is Deny with
\* the one redirect {returnUrl: route, requiresScraping: true}.
C3_CombinedDecidesOnScraping ==
  (gGuard = "combinedGuard" /\ gPc = "returned" /\ OAuthValid(gAuth)) =>
    /\ gResult = "Allow" => ScrapingValid(gCookie)
    /\ ScrapingInvalid(gCookie) =>
         /\ gResult = "Deny"
         /\ redirects = <<NavigateCall(gUrl, "true")>>

\* C4 (as claimed): a check in which a status request failed never has the
\* decision Allow; once it has returned, the decision is Deny and its
\* redirect goes to /authentication.
C4_FailClosed ==
  gFailed =>
    /\ gResult # "Allow"
    /\ gPc = "returned" =>
         /\ gResult = "Deny"
         /\ redirects # <<>>
         /\ redirects[Len(redirects)].target = "/authentication"

\* C5: when combinedGuard has received an unauthenticated or expired OAuth
\* descriptor, the decision is Deny with the single redirect
\* {returnUrl: route} and no scraping status request was issued or answered,
\* so no scraping descriptor takes part in the decision or the redirect.
C5_OAuthDenialDecidesAlone ==
  (gGuard = "combinedGuard" /\ OAuthInvalid(gAuth)) =>
    /\ gPc = "returned"
    /\ gResult = "Deny"
    /\ redirects = <<NavigateCall(gUrl, Absent)>>
    /\ gReqs = {"authStatus"}
    /\ gInner = "none"
    /\ gCookie = NoResponse

C5_Witness ==
  /\ gGuard = "combinedGuard" /\ OAuthInvalid(gAuth) /\ gAuth.expired
  /\ gResult = "Deny" /\ gUrl = "/scraping"

\* C6 (as claimed): once combinedGuard has returned, the redirects made by
\* the check are those made up to its return: none after an Allow, the one
\* of the denial after a Deny.
C6_NoRedirectAfterDecision ==
  (gGuard = "combinedGuard" /\ gPc = "returned") =>
    /\ gResult = "Allow" => (redirects = <<>> /\ routerUrl = gUrl)
    /\ gResult = "Deny" => Len(redirects) = 1

\* C7: a navigation that resolves to /authentication (policy None) has been
\* allowed at once: no guard ran, no Remote API request was issued, and the
\* router shows /authentication; every guard redirect lands there too.
C7_EntryPointNeverGuarded ==
  /\ (gPc # "idle" /\ gUrl = "/authentication") =>
       /\ gGuard = "none" /\ gPc = "returned" /\ gResult = "Allow"
       /\ gReqs = {} /\ ~gFailed
       /\ routerUrl = "/authentication"
  /\ redirects # <<>> => routerUrl = "/authentication"

C7_Witness ==
  /\ gPc = "returned" /\ gUrl = "/authentication" /\ gGuard = "none"
  /\ gResult = "Allow" /\ gReqs = {} /\ routerUrl = "/authentication"

\* ------------------------------------------------------- scraping-track claims

\* the step just taken ran the next / error callback of authenticateScraping
AnsweredNext == last'.op = "authenticateScraping.next"
AnsweredError == last'.op = "authenticateScraping.error"

\* the step just taken was a call of authenticateScraping(ngForm)
Submitted ==
  last'.op \in {"authenticateScraping.invalid", "authenticateScraping.submit"}

\* C8: a 2xx answer with mfaRequired=true leaves mfaRequired set, the
\* scraping descriptor as it was and the form as it was (email and password
\* still there); a 2xx answer without mfaRequired (the code was accepted)
\* resets mfaRequired and empties email, password and mfaCode, and asks for
\* the status again.
C8_MfaRoundTrip ==
  [][
      /\ (AnsweredNext /\ last'.arg.mfaRequired) =>
            /\ mfaRequired' = TRUE
            /\ scrapingCreds' = scrapingCreds
            /\ cookieStatus' = cookieStatus
            /\ timers' = timers
      /\ (AnsweredNext /\ ~last'.arg.mfaRequired) =>
            /\ mfaRequired' = FALSE
            /\ scrapingCreds' = EmptyCreds
            /\ scrapingLoading' = FALSE
            /\ statusReqs' = loadStatus(statusReqs, 1)
    ]_vars

\* the second leg has happened: MFA was pending, the request carried the
\* code, the Remote API accepted it
C8_Witness ==
  /\ last.op = "authenticateScraping.next"
  /\ ~last.arg.mfaRequired
  /\ last.challenged
  /\ last.body.mfaCode = "123456"
  /\ last.body.email = "user@example.com"
  /\ mfaRequired = FALSE
  /\ scrapingCreds = EmptyCreds

\* C9: an MFA demand on the 2xx channel and one on the error channel end in
\* the same state: mfaRequired=true, scrapingLoading=false, the same warning
\* (the server's message or the default prompt), form, descriptors, pending
\* status requests and timers untouched.
C9_MfaSignalEitherChannel ==
  [][((AnsweredNext \/ AnsweredError) /\ last'.arg.mfaRequired) =>
       /\ mfaRequired' = TRUE
       /\ scrapingLoading' = FALSE
       /\ snack' = Message(<<OrElse(last'.arg.message, MfaPrompt)>>, "warning")
       /\ scrapingCreds' = scrapingCreds
       /\ authStatus' = authStatus
       /\ cookieStatus' = cookieStatus
       /\ statusReqs' = statusReqs
       /\ timers' = timers
       /\ resumes' = resumes]_vars

\* the demand came as an error payload while the track was not yet in
\* MfaRequired
C9_Witness ==
  /\ last.op = "authenticateScraping.error"
  /\ last.arg.mfaRequired
  /\ ~last.challenged
  /\ mfaRequired
  /\ ~scrapingLoading
  /\ scrapingCreds.email = "user@example.com"

\* C10: a call of authenticateScraping with email or password empty, or with
\* MFA pending and the code empty, issues no request and changes nothing but
\* the snack bar, which shows a warning.
C10_ValidationBeforeRequest ==
  [][(/\ Submitted
      /\ \/ scrapingCreds.email = ""
         \/ scrapingCreds.password = ""
         \/ (mfaRequired /\ scrapingCreds.mfaCode = "")) =>
       /\ authReqs' = authReqs
       /\ statusReqs' = statusReqs
       /\ scrapingLoading' = scrapingLoading
       /\ mfaRequired' = mfaRequired
       /\ scrapingCreds' = scrapingCreds
       /\ authStatus' = authStatus
       /\ cookieStatus' = cookieStatus
       /\ timers' = timers
       /\ snack'.type = "warning"]_vars

\* the MFA code was missing while MFA was pending
C10_Witness ==
  /\ last.op = "authenticateScraping.invalid"
  /\ mfaRequired
  /\ scrapingCreds.email # "" /\ scrapingCreds.password # ""
  /\ scrapingCreds.mfaCode = ""
  /\ snack = Message(<<"MFA code is required">>, "warning")
  /\ authReqs = <<>>

\* --------------------------------------------------------------- poller claims

StatusErrorOps == {"loadStatus.auth.error", "loadStatus.cookie.error"}

\* C11: a failed getAuthStatus or getCookieStatus of loadStatus leaves the
\* stored descriptor of the screen equal to its value before the failure.
C11_FailedRefreshKeepsDescriptor ==
  [][
      /\ (last'.op = "loadStatus.auth.error") => (authStatus' = authStatus)
      /\ (last'.op = "loadStatus.cookie.error") => (cookieStatus' = cookieStatus)
      /\ (last'.op = "scr.loadStatus.cookie.error") =>
            (scrCookieStatus' = scrCookieStatus)
    ]_vars

\* C12: ngOnDestroy on a destroyed screen changes nothing, and once a screen
\* is destroyed none of its handlers issues a status request.
C12_StopIsIdempotentAndFinal ==
  [][
      /\ (alive = "destroyed") =>
            /\ polling' = FALSE
            /\ statusReqs'.auth <= statusReqs.auth
            /\ statusReqs'.cookie <= statusReqs.cookie
            /\ (last'.op = "ngOnDestroy") =>
                  (<<alive, authStatus, cookieStatus, statusReqs, authReqs,
                     timers, polling>>' =
                   <<alive, authStatus, cookieStatus, statusReqs, authReqs,
                     timers, polling>>)
      /\ (scrAlive = "destroyed") =>
            /\ scrPolling' = FALSE
            /\ scrReqs'.cookie + scrLate'.cookie <= scrReqs.cookie + scrLate.cookie
            /\ (last'.op = "scr.ngOnDestroy") => (scrVars' = scrVars)
    ]_vars

\* C13: the status requests that are unanswered when a screen is destroyed
\* never reach their callbacks: on a destroyed authentication page the stored
\* descriptors no longer change, and on a destroyed scraping screen the stored
\* descriptor changes only by the answer to a request that was issued after
\* the screen was destroyed.
C13_InFlightResultDropped ==
  [][
      /\ (alive = "destroyed") =>
            /\ authStatus' = authStatus
            /\ cookieStatus' = cookieStatus
      /\ (scrAlive = "destroyed" /\ scrCookieStatus' # scrCookieStatus) =>
            last'.late
      /\ (scrAlive = "destroyed") => (scrReqs' = NoScrReqs)
    ]_vars

\* a getAuthStatus and a getCookieStatus were unanswered when the page was
\* destroyed, and the descriptors are still the initial ones
C13_Witness ==
  /\ alive = "destroyed"
  /\ last.op = "ngOnDestroy"
  /\ last.dropped.auth > 0
  /\ last.dropped.cookie > 0
  /\ statusReqs = [auth |-> 0, cookie |-> 0]
  /\ authStatus = DefaultAuthStatus

\* C14: at any moment at most one getAuthStatus and at most one
\* getCookieStatus issued by loadStatus of the authentication page is
\* unanswered.
C14_RefreshesSerialized ==
  /\ statusReqs.auth <= 1
  /\ statusReqs.cookie <= 1

\* C15: a screen issues one getAuthStatus and one getCookieStatus when it is
\* activated and on every tick of its poller, and a tick fires only when 30
\* seconds have passed since activation or the previous tick.
C15_TickRefreshesBoth ==
  [][
      /\ (last'.op \in {"ngOnInit", "poll"}) =>
            /\ statusReqs'.auth = statusReqs.auth + 1
            /\ statusReqs'.cookie = statusReqs.cookie + 1
      /\ (last'.op = "poll") => (clock = PollInterval /\ clock' = 0)
      /\ (last'.op \in {"scr.ngOnInit", "scr.poll"}) =>
            /\ scrReqs'.auth = scrReqs.auth + 1
            /\ scrReqs'.cookie = scrReqs.cookie + 1
      /\ (last'.op = "scr.poll") => (scrClock = PollInterval /\ scrClock' = 0)
    ]_vars

ScrStatusErrorOps ==
  {"scr.loadStatus.cookie.error", "scr.loadStatus.revisions.error"}

\* C16: on each of the two screens a failed status request of loadStatus
\* leaves the interval subscribed and its schedule untouched, an active screen
\* always has its interval, and every tick, after a failure as after an
\* answer, issues one getAuthStatus and one getCookieStatus.
C16_FailureKeepsPolling ==
  [][
      /\ (last'.op \in StatusErrorOps) =>
            /\ polling' = polling
            /\ clock' = clock
            /\ alive' = alive
      /\ (alive' = "active") => polling'
      /\ (last'.op = "poll") =>
            /\ statusReqs'.auth = statusReqs.auth + 1
            /\ statusReqs'.cookie = statusReqs.cookie + 1
      /\ (last'.op \in ScrStatusErrorOps) =>
            /\ scrPolling' = scrPolling
            /\ scrClock' = scrClock
            /\ scrAlive' = scrAlive
      /\ (scrAlive' = "active") => scrPolling'
      /\ (last'.op = "scr.poll") =>
            /\ scrReqs'.auth = scrReqs.auth + 1
            /\ scrReqs'.cookie = scrReqs.cookie + 1
    ]_vars

\* ------------------------------------------------------------- callback claims

\* a callback parser ran again, as opposed to its first run in ngOnInit
Reparsed == last'.op \in {"app.handleOAuthCallback", "handleOAuthCallback"}

\* C17: once AppComponent has parsed the address, no success or error is left
\* in it, and a callback parser (of AppComponent or of the authentication
\* page) that runs on an address without success and error changes nothing:
\* no message, no status request, no timer, no navigation, no field. The
\* parser of the authentication page leaves no success=true and no error
\* behind either.
C17_CallbackParsedOnce ==
  [][
      /\ (appAlive' = "active") =>
            (search'.success = Absent /\ search'.error = Absent)
      /\ (Reparsed /\ search = NoCallback) =>
            /\ search' = search
            /\ appVars' = appVars
            /\ pageFields' = pageFields
            /\ snack' = snack
      /\ \A srch \in SearchValues :
            LET cb == handleOAuthCallback(srch, NoMessage)
            IN  /\ (srch.success = "true" \/ srch.error # Absent) =>
                      cb.search = NoCallback
                /\ handleOAuthCallback(NoCallback, cb.snack) =
                      [snack |-> cb.snack, loads |-> 0, timer |-> 0,
                       search |-> NoCallback]
    ]_vars

\* AppComponent parsed a success callback, and its parser then ran again
C17_Witness ==
  /\ last.op = "app.handleOAuthCallback"
  /\ appNavs = <<"/data-fetch">>
  /\ search = NoCallback
  /\ pathname = "/data-fetch"

StatusAnswerOps ==
  {"app.checkAuthStatus.next", "app.checkAuthStatus.error",
   "loadStatus.auth.next", "loadStatus.auth.error"}

\* C18: the handler that parses a success or an error callback removes the
\* query from the address in the same step (the parser of the authentication
\* page too, whenever it asks for a refresh or reports an error), and no
\* answer to getAuthStatus is stored in an authStatus while success or error
\* is in the address.
C18_AddressClearedBeforeStore ==
  [][
      /\ (last'.op = "app.ngOnInit"
            /\ (search.success # Absent \/ search.error # Absent)) =>
            search' = NoCallback
      /\ (last'.op \in StatusAnswerOps) =>
            (search.success = Absent /\ search.error = Absent)
      /\ (appAuthStatus' # appAuthStatus \/ authStatus' # authStatus) =>
            (search.success = Absent /\ search.error = Absent)
      /\ \A srch \in SearchValues :
            LET cb == handleOAuthCallback(srch, NoMessage)
            IN  (cb.loads > 0 \/ srch.error # Absent) =>
                   (cb.search.success = Absent /\ cb.search.error = Absent)
    ]_vars

\* the application was opened on an error callback; the address is clean and
\* the answer to checkAuthStatus has been stored
C18_Witness ==
  /\ last.op = "app.checkAuthStatus.next"
  /\ appNavs = <<"/authentication">>
  /\ search = NoCallback
  /\ appAuthStatus.authenticated

\* C19: when the application is opened on a success callback, the navigation
\* that follows goes to the returnUrl of the address when there is one and to
\* /data-fetch when there is none; on an error callback no navigation to a
\* guarded route is made.
C19_SuccessResumesIntent ==
  [][(last'.op = "app.ngOnInit") =>
       /\ (last'.search.success # Absent) =>
             appNavs' = <<OrElse(last'.params.returnUrl, "/data-fetch")>>
       /\ (last'.search.success = Absent /\ last'.search.error # Absent) =>
             \A i \in 1..Len(appNavs') : canActivate(appNavs'[i]) = "none"
     ]_vars

\* C20: on one visit to the authentication page at most one timer navigates
\* to returnUrl.
C20_IntentConsumedOnce == Len(resumes) <= 1

\* -------------------------------------------------------------- resume claims

\* a 2xx answer without an MFA demand has just been handled
LoggedIn == AnsweredNext /\ ~last'.arg.mfaRequired

\* C21 as stated: a successful scraping login clears the form and schedules
\* the redirect exactly when requiresScraping is set; the navigation itself
\* is made by a later step.
C21_ResumeIffRequiresScraping ==
  [][
      /\ LoggedIn =>
            /\ scrapingCreds' = EmptyCreds
            /\ resumes' = resumes
            /\ timers' = IF requiresScraping THEN timers + 1 ELSE timers
      /\ (resumes' # resumes) => (last'.op = "timer")
    ]_vars

\* C21: a successful scraping login clears the form, shows the success
\* message and schedules the redirect exactly when requiresScraping is set and
\* returnUrl is not /authentication; the navigation to returnUrl is made by a
\* later step of its own, the timer.
C21_ResumeIffIntentElsewhere ==
  [][
      /\ LoggedIn =>
            /\ scrapingCreds' = EmptyCreds
            /\ snack' = Message(<<"Scraping authentication successful!">>,
                                "success")
            /\ resumes' = resumes
            /\ timers' = IF requiresScraping /\ returnUrl # "/authentication"
                         THEN timers + 1 ELSE timers
      /\ (resumes' # resumes) =>
            /\ last'.op = "timer"
            /\ timers' = timers - 1
            /\ resumes' = Append(resumes, returnUrl)
    ]_vars

\* the login succeeded with an intent for /scraping pending: the form is
\* empty and the redirect is scheduled but not made
C21_Witness ==
  /\ last.op = "authenticateScraping.next"
  /\ ~last.arg.mfaRequired
  /\ requiresScraping
  /\ returnUrl = "/scraping"
  /\ scrapingCreds = EmptyCreds
  /\ timers = 1
  /\ resumes = <<>>

\* ------------------------------------------------------- session-token claims

\* the handler that has just run called CookieService.clearCookies
ClearedToken ==
  \/ last'.op \in {"rev.logout", "rev.validate.error"}
  \/ last'.op = "rev.validate.next" /\ ~last'.arg.valid
  \/ last'.op = "rev.fetch.error" /\ last'.arg.requiresReauth

\* C22: CookieService.clearCookies is idempotent: from every state, one that
\* an earlier clear produced included, every call leaves no in-memory token,
\* no localStorage item and a screen that is not authenticated; a call made
\* in such a state changes nothing; getCurrentCookies then returns null, and
\* a CookieService constructed over the emptied storage holds null.
C22_ClearIsIdempotent ==
  [][
      /\ ClearedToken =>
            /\ cookies' = Absent
            /\ stored' = Absent
            /\ getCurrentCookies' = Absent
            /\ ~isAuthenticated'
      /\ (ClearedToken /\ cookies = Absent /\ stored = Absent
            /\ ~isAuthenticated) =>
            (<<cookies, stored, isAuthenticated>>' =
             <<cookies, stored, isAuthenticated>>)
      /\ (last'.op = "rev.constructor" /\ stored = Absent) =>
            (cookies' = Absent /\ stored' = Absent)
    ]_vars

\* C23: a token read from localStorage does not authenticate by itself:
\* isAuthenticated is false while the component is constructed and when
\* ngOnInit has sent the token to be validated; with a token in memory it
\* becomes true only in the step that handles a validation answer with
\* valid = true, or a credential login whose answer put a new token in its
\* place; and after a validation answered valid = false or failed the screen
\* is not authenticated.
C23_LoadedTokenNotTrusted ==
  [][
      /\ (revAlive' = "constructed") => ~isAuthenticated'
      /\ (last'.op = "rev.ngOnInit") => ~isAuthenticated'
      /\ (isAuthenticated' /\ ~isAuthenticated /\ Truthy(cookies)) =>
            \/ last'.op = "rev.validate.next" /\ last'.arg.valid
            \/ last'.op = "rev.retrieve.next" /\ last'.arg.success
      /\ (last'.op = "rev.validate.next" /\ ~last'.arg.valid) =>
            ~isAuthenticated'
      /\ (last'.op = "rev.validate.error") => ~isAuthenticated'
    ]_vars

\* C24: the stored token is written only by a credential login answered with
\* success, and removed only by logout or by an answer of the Remote API that
\* reports valid = false or requiresReauth.
C24_TokenLifecycle ==
  [][
      (stored' # stored) =>
         \/ last'.op = "rev.retrieve.next" /\ last'.arg.success
         \/ last'.op = "rev.logout"
         \/ last'.op = "rev.validate.next" /\ ~last'.arg.valid
         \/ last'.op = "rev.fetch.error" /\ last'.arg.requiresReauth
    ]_vars

\* C25: when an explicit clear of the scraping session completes, the
\* scraping descriptor held by the authentication page is hasCookies = false,
\* valid = false, whatever the Remote API reports afterwards.
C25_ClearResetsDescriptor ==
  [][
      (last'.op = "clearCookies.next") =>
         (~cookieStatus'.hasCookies /\ ~cookieStatus'.valid)
    ]_vars

\* C26: mfaRequired becomes true only when a credential submission is answered
\* with an MFA requirement, and it is false after a successful submission,
\* after a submission that fails without an MFA requirement, and after a
\* completed clear of the session.
C26_MfaPendingExactly ==
  [][
      /\ (AnsweredNext \/ AnsweredError) => (mfaRequired' = last'.arg.mfaRequired)
      /\ (last'.op = "clearCookies.next") => ~mfaRequired'
      /\ (mfaRequired' /\ ~mfaRequired) =>
            ((AnsweredNext \/ AnsweredError) /\ last'.arg.mfaRequired)
    ]_vars

\* ------------------------------------------------------- fresh-load claims

\* what an OAuth descriptor says on a first visit: nothing is stored
FreshAnswer(d) == d # NoResponse /\ ~d.authenticated /\ ~d.hasToken

\* C27: on a fresh load every component that is constructed and not yet
\* initialised holds the OAuth descriptor {authenticated: false, expired:
\* false, hasToken: false} and the scraping descriptor hasCookies = false,
\* valid = false; and when authGuard has decided on /data-fetch over the
\* answer of a first visit, it has emitted Deny, its one redirect goes to
\* /authentication with returnUrl = /data-fetch and without requiresScraping,
\* which the authentication page reads as the intent /data-fetch with
\* requiresScraping = false.
C27_FreshLoadDenied ==
  /\ (alive = "constructed") =>
        /\ authStatus =
             [authenticated |-> FALSE, expired |-> FALSE, hasToken |-> FALSE]
        /\ ~cookieStatus.hasCookies /\ ~cookieStatus.valid
  /\ (appAlive = "constructed") =>
        (appAuthStatus =
           [authenticated |-> FALSE, expired |-> FALSE, hasToken |-> FALSE])
  /\ (scrAlive = "constructed") =>
        (scrCookieStatus = [hasCookies |-> FALSE, valid |-> FALSE])
  /\ (gGuard = "authGuard" /\ gUrl = "/data-fetch" /\ gPc = "returned"
      /\ FreshAnswer(gAuth)) =>
        /\ gResult = "Deny"
        /\ routerUrl = "/authentication"
        /\ Len(redirects) = 1
        /\ redirects[1].target = "/authentication"
        /\ LET intent == queryParamsNext(
                           [returnUrl |-> redirects[1].returnUrl,
                            requiresScraping |-> redirects[1].requiresScraping],
                           NoMessage)
           IN  /\ intent.returnUrl = "/data-fetch"
               /\ intent.requiresScraping = FALSE
               /\ intent.snack = NoMessage

\* a first visit without a callback in the address asked for /data-fetch and
\* was sent to the authentication page
C27_Witness ==
  /\ search = NoCallback
  /\ alive = "constructed" /\ appAlive = "constructed"
  /\ gGuard = "authGuard" /\ gUrl = "/data-fetch" /\ gPc = "returned"
  /\ gAuth = [authenticated |-> FALSE, expired |-> FALSE, hasToken |-> FALSE,
              expiresAt |-> Absent]
  /\ gResult = "Deny"
  /\ redirects = <<NavigateCall("/data-fetch", Absent)>>

\* C28: once the authentication page is destroyed, nothing it started changes
\* its state, issues a request or navigates.
C28_TeardownCancelsAll ==
  [][
      (alive = "destroyed" /\ last'.op # "ngOnDestroy") =>
         UNCHANGED <<authStatus, cookieStatus, scrapingLoading, mfaRequired,
                     scrapingCreds, statusReqs, authReqs, resumes, snack,
                     gGuard, gUrl, gPc, gReqs>>
    ]_vars

\* C29: a denial on the OAuth descriptor records whether the route also needs
\* scraping: authGuard redirects without requiresScraping, combinedGuard
\* redirects with requiresScraping = 'true'.
C29_DenialRecordsPolicy ==
  (gPc = "returned" /\ gResult = "Deny" /\ OAuthInvalid(gAuth)) =>
    /\ (gGuard = "authGuard") => (redirects = <<NavigateCall(gUrl, Absent)>>)
    /\ (gGuard = "combinedGuard") => (redirects = <<NavigateCall(gUrl, "true")>>)

\* C30: within one check of combinedGuard the scraping status request is
\* issued in the step that handles a valid OAuth descriptor and in no other:
\* it is not issued while the OAuth answer is outstanding, nor when the
\* descriptor is unauthenticated or expired, nor when the OAuth request fails.
C30_OAuthCheckFirst ==
  [][
      (gGuard' = "combinedGuard") =>
         /\ ("cookieStatus" \in gReqs' /\ "cookieStatus" \notin gReqs) =>
               /\ gGuard = "combinedGuard"
               /\ gPc = "authPending"
               /\ gAuth = NoResponse
               /\ OAuthValid(gAuth')
         /\ ("cookieStatus" \in gReqs') => OAuthValid(gAuth')
         /\ (gAuth' = NoResponse \/ OAuthInvalid(gAuth') \/ gFailed') =>
               \/ "cookieStatus" \notin gReqs'
               \/ OAuthValid(gAuth') /\ gInner' = "failed"
    ]_vars

\* combinedGuard received a valid OAuth descriptor and only then asked for the
\* scraping status
C30_Witness ==
  /\ gGuard = "combinedGuard"
  /\ OAuthValid(gAuth)
  /\ gReqs = {"authStatus", "cookieStatus"}
  /\ gInner = "pending"

\* ------------------------------------------------------ persistence claims

\* C36: RevisionHistoryComponent is authenticated only while CookieService
\* holds a token: no state has isAuthenticated = true and getCurrentCookies()
\* = null.
C36_AuthenticatedHasToken == isAuthenticated => (getCurrentCookies # Absent)

\* C39 as stated: getCurrentCookies() always equals the localStorage item
\* (null when the item is absent), and a retrieveCookies answer with
\* success = false changes neither.
C39_MirroredExactly ==
  /\ [](getCurrentCookies = stored)
  /\ [][(last'.op = "rev.retrieve.next" /\ ~last'.arg.success) =>
           (cookies' = cookies /\ stored' = stored)]_vars

\* C39: getCurrentCookies() equals the localStorage item whenever that item
\* is a non-empty string, and is null or empty whenever the item is absent or
\* the empty string (a CookieService constructed over an empty item holds
\* null); a retrieveCookies answer with success = false changes neither.
C39_MirroredUpToEmpty ==
  /\ [](/\ Truthy(stored) => (getCurrentCookies = stored)
        /\ ~Truthy(stored) => ~Truthy(getCurrentCookies)
        /\ (stored = Absent) => (getCurrentCookies = Absent))
  /\ [][(last'.op = "rev.retrieve.next" /\ ~last'.arg.success) =>
           (cookies' = cookies /\ stored' = stored)]_vars

\* a login answered success = false with another cookie string left the token
\* in memory and the stored one as they were
C39_Witness ==
  /\ last.op = "rev.retrieve.next"
  /\ ~last.arg.success
  /\ Truthy(stored)
  /\ last.arg.cookies # stored
  /\ getCurrentCookies = stored

\* ---------------------------------------------------- bulk-fetch claims

\* the step just taken was a call of fetchAllRevisions()
FetchCalled ==
  last'.op \in {"scr.fetchAllRevisions.invalid", "scr.fetchAllRevisions.submit"}

\* C37: a call of fetchAllRevisions() while the stored scraping descriptor has
\* valid = false issues no request and leaves loading and fetchingRevisions
\* as they were, and a fetch request is only ever issued by a call made while
\* the stored descriptor is valid.
C37_FetchNeedsValidDescriptor ==
  [][
      /\ (FetchCalled /\ ~scrCookieStatus.valid) =>
            /\ last'.op = "scr.fetchAllRevisions.invalid"
            /\ scrReqs' = scrReqs
            /\ scrLate' = scrLate
            /\ scrLoading' = scrLoading
            /\ scrFetching' = scrFetching
      /\ (scrReqs'.fetch > scrReqs.fetch \/ scrLate'.fetch > scrLate.fetch) =>
            /\ last'.op = "scr.fetchAllRevisions.submit"
            /\ scrCookieStatus.valid
    ]_vars

\* fetchAllRevisions() was called over a descriptor that has cookies which are
\* not valid, and nothing was started
C37_Witness ==
  /\ last.op = "scr.fetchAllRevisions.invalid"
  /\ scrCookieStatus.hasCookies /\ ~scrCookieStatus.valid
  /\ scrReqs.fetch = 0
  /\ ~scrLoading /\ ~scrFetching

\* scraping-track requests of the authentication page that are unanswered
ScrapingOutstanding == Len(authReqs) + opReqs.validate + opReqs.clear

\* C40: on the live authentication page scrapingLoading is true exactly while
\* an authenticateScraping, validateCookies or clearCookies request of the
\* page is unanswered.
C40_LoadingWhileOutstanding ==
  (alive = "active") => (scrapingLoading <=> (ScrapingOutstanding > 0))

\* ------------------------------------------------------ shell claims

\* what AppComponent.handleOAuthCallback takes the address for
AppClassifies(srch) ==
  LET r == appHandleOAuthCallback(srch, "/authentication")
  IN  IF r.nav = <<"/data-fetch">> THEN "success"
      ELSE IF r.nav = <<"/authentication">> THEN "failure"
      ELSE "none"

\* what AuthenticationComponent.handleOAuthCallback takes the address for
PageClassifies(srch) ==
  LET r == handleOAuthCallback(srch, NoMessage)
  IN  IF r.timer = 1 THEN "success"
      ELSE IF r.snack # NoMessage THEN "failure"
      ELSE "none"

\* C35: the two callback parsers take every address for the same thing: an
\* OAuth success, an OAuth failure, or no callback.
C35_ParsersAgree == AppClassifies(search) = PageClassifies(search)

\* C33: whenever the authentication page stores an OAuth descriptor it has
\* received, the descriptor AppComponent holds equals it in authenticated and
\* expired.
C33_ShellSeesPageDescriptor ==
  [][(last'.op = "loadStatus.auth.next") =>
        /\ appAuthStatus'.authenticated = authStatus'.authenticated
        /\ appAuthStatus'.expired = authStatus'.expired]_vars

\* C34: for the descriptor AppComponent holds, a navigation item that
\* requires authentication is unlocked exactly when authGuard allows its route.
C34_LockAgreesWithGuard ==
  \A item \in NavItems :
    item.requiresAuth =>
      (~isNavItemLocked(item, appAuthStatus)
         <=> authGuardMap(appAuthStatus, item.route).result = "Allow")

\* C38: when a logout request of AppComponent completes, loading is false and
\* a navigation to /authentication has been made, which the router carries
\* out; the descriptor is the reset one after a success and the one held
\* before after a failure. A request that ngOnDestroy ends does not complete:
\* the step that drops it is the one that leaves the component destroyed.
C38_LogoutEndsOnAuthentication ==
  [][
      /\ (appLogoutReqs' < appLogoutReqs /\ appAlive' = "active") =>
            /\ last'.op \in {"app.logout.next", "app.logout.error"}
            /\ ~appLoading'
            /\ appNavs' = Append(appNavs, "/authentication")
            /\ routerUrl' = "/authentication"
      /\ (appLogoutReqs' < appLogoutReqs /\ last'.op = "app.logout.next") =>
            appAuthStatus' =
              [authenticated |-> FALSE, expired |-> FALSE, hasToken |-> FALSE]
      /\ (appLogoutReqs' < appLogoutReqs /\ last'.op = "app.logout.error") =>
            appAuthStatus' = appAuthStatus
    ]_vars

\* a logout failed while the shell held an authenticated descriptor and the
\* router showed a protected route: the descriptor is kept and the router is
\* back on the authentication page
C38_Witness ==
  /\ last.op = "app.logout.error"
  /\ appAuthStatus.authenticated
  /\ ~appLoading
  /\ appLogoutReqs = 0
  /\ appNavs # <<>>
  /\ gUrl = "/authentication" /\ routerUrl = "/authentication"
  /\ redirects = <<>>

\* the authentication page is shown after a denial and holds the route that
\* was denied as its returnUrl
IntentHeld ==
  /\ alive = "active"
  /\ routerUrl = "/authentication"
  /\ routerQuery.returnUrl # Absent
  /\ returnUrl = routerQuery.returnUrl

\* C32: once the authentication page holds the route authGuard denied as its
\* returnUrl, it keeps it for as long as the page stays shown, whenever
\* AppComponent's checkAuthStatus is answered.
C32_IntentSurvives ==
  [][(IntentHeld /\ alive' = "active" /\ appReqs' < appReqs) =>
        returnUrl' = returnUrl]_vars

\* C31: fed by a Remote API whose OAuth descriptors have a token whenever
\* they are authenticated and whose scraping descriptors have cookies whenever
\* they are valid, every descriptor a component holds has the same two
\* properties, the defaults, the error fallbacks and the logout reset included.
C31_DescriptorsCoherent ==
  /\ CoherentAuth(authStatus)
  /\ CoherentAuth(appAuthStatus)
  /\ CoherentCookie(cookieStatus)
  /\ CoherentCookie(scrCookieStatus)

\* the page has just fallen back to its default OAuth descriptor after a
\* failed request while it holds a valid scraping descriptor, the screen held
\* a valid one too, and the shell holds the descriptor a logout resets to
C31_Witness ==
  /\ last.op = "loadStatus.auth.error"
  /\ authStatus = DefaultAuthStatus
  /\ cookieStatus.valid /\ cookieStatus.hasCookies
  /\ scrCookieStatus.valid /\ scrCookieStatus.hasCookies
  /\ appAuthStatus = AppDefaultAuthStatus
  /\ appNavs # <<>> /\ appLogoutReqs = 0 /\ ~appLoading

====
